---- MODULE Spec2Model ----
(***************************************************************************)
(* A model of the terminal adapter's interior engine: the command          *)
(* classifier (domain/classifier.py) and the session manager with its      *)
(* write-ahead log and anchor loop (domain/session_manager.py).            *)
(***************************************************************************)
EXTENDS Integers, Sequences, FiniteSets, TLC

VARIABLES
    \* ---- CommandClassifier ----
    manifest,        \* CommandClassifier.manifest: <<>> (None) or <<PolicyManifest>>
    paranoid_mode,   \* CommandClassifier.paranoid_mode
    classification,  \* <<>> or <<ClassificationResult>> of the last classify call
    startup,         \* whether lifespan has run, and the file at TALOS_POLICY_MANIFEST
    \* ---- SessionManager (in memory, lost in a crash) ----
    sessions,        \* SessionManager.sessions: session id -> TerminalSession
    session_keys,    \* the keys of SessionManager.sessions in insertion order
    wals,            \* SessionManager.wals: session id -> WriteAheadLog (its sequence)
    last_anchor,     \* SessionManager._last_anchor: session id -> time
    anchor_callback, \* SessionManager.anchor_callback is set (TRUE) or None (FALSE)
    rec,             \* <<>> or <<the record_action call that is running>>
    calls,           \* the anchor_session calls suspended in the anchor callback
    loop,            \* the _anchor_loop task: its position and the ids still to visit
    ret,             \* what the last completed call of the manager returned
    \* ---- the environment ----
    wal_files,       \* the WAL files on disk: session id -> [exists, lines]
    now,             \* datetime.utcnow(), in minutes
    next_session,    \* the uuid4 source for session ids
    next_action,     \* the uuid4 source for action ids
    crashes,         \* the number of crashes so far
    budget,          \* how many sessions, actions and crashes a behaviour may have
    \* ---- history, for stating the properties ----
    fsynced,         \* action ids whose WAL entry was written and fsynced
    returned,        \* the actions record_action returned for: [action_id,
                     \* session_id, crashes (how many crashes had happened by then),
                     \* audit_hash (the hash it returned)]
    anchored,        \* action ids covered by the root of an anchor_session call that
                     \* completed (it returned the root)
    since_anchor,    \* session id -> what happened last to its WAL: "fresh" (nothing
                     \* yet), "anchored" (an anchor completed) or "dirty" (a write)
    failed_anchor,   \* session ids whose anchor callback raised, with no call of
                     \* anchor_session for them since
    \* ---- the request handler and the executors ----
    host_env,        \* os.environ of the adapter process: key -> value
    exec,            \* <<>> or <<the terminal_execute call awaiting its child>>
    response,        \* what the last terminal_execute call answered
    children,        \* the child processes spawned so far, in order
    pty_sessions,    \* PTYExecutor.sessions: session id -> InteractiveSession
    read_tasks,      \* PTYExecutor._read_tasks: session id -> position of the reader
    pty_ret,         \* what the last call of the PTY executor returned
    \* ---- the operating system, for the PTY executor ----
    procs,           \* pid -> the child: running, exited and not reaped, or reaped
    fds,             \* the file descriptors the adapter process has open
    tty,             \* pid -> the chunks the child wrote that the master has not read
    pty_hist,        \* history: the signals sent, the writes made to master fds, and
                     \* per session the text read from the PTY and the text returned
    \* ---- evaluation of a pure function ----
    merkle           \* <<>> or <<[actions, root]>>: a compute_merkle_root call

cvars == <<manifest, paranoid_mode, classification, startup>>

mvars == <<sessions, session_keys, wals, last_anchor, anchor_callback, rec, calls, loop, ret>>

evars == <<wal_files, now, next_session, next_action, crashes, budget>>

hvars == <<fsynced, returned, anchored, since_anchor, failed_anchor>>

pvars == <<read_tasks, pty_ret, procs, fds, tty, pty_hist>>

xvars == <<host_env, exec, response, children, pty_sessions, merkle, pvars>>

vars == <<cvars, mvars, evars, hvars, xvars>>

\* Python's None, where the field is otherwise a string.
None == "None"

(***************************************************************************)
(* Regular expressions (Python re), as far as the pattern tables use them: *)
(* literals, escapes, ., ^, $, \b, \s, an empty group () and the           *)
(* quantifiers + and * on a single-character atom.                         *)
(***************************************************************************)

WordChars ==
    {"a","b","c","d","e","f","g","h","i","j","k","l","m","n","o","p","q","r","s",
     "t","u","v","w","x","y","z","A","B","C","D","E","F","G","H","I","J","K","L",
     "M","N","O","P","Q","R","S","T","U","V","W","X","Y","Z","0","1","2","3","4",
     "5","6","7","8","9","_"}

SpaceChars == {" ", "\t", "\n", "\r", "\f"}

CharAt(s, i) == SubSeq(s, i, i)

\* The quantifier that follows the atom ending before position j of pattern p.
QuantAt(p, j) ==
    IF j <= Len(p) /\ CharAt(p, j) \in {"+", "*"} THEN CharAt(p, j) ELSE "1"

\* re.compile: the pattern's atoms in order.
RECURSIVE ParseFrom(_, _)
ParseFrom(p, i) ==
    IF i > Len(p) THEN <<>>
    ELSE LET ch == CharAt(p, i) IN
      IF ch = "^" THEN <<[k |-> "bol", c |-> "", q |-> "1"]>> \o ParseFrom(p, i + 1)
      ELSE IF ch = "$" THEN <<[k |-> "eol", c |-> "", q |-> "1"]>> \o ParseFrom(p, i + 1)
      ELSE IF ch = "(" /\ i < Len(p) /\ CharAt(p, i + 1) = ")" THEN ParseFrom(p, i + 2)
      ELSE IF ch = "\\" /\ i < Len(p) /\ CharAt(p, i + 1) = "b"
        THEN <<[k |-> "wb", c |-> "", q |-> "1"]>> \o ParseFrom(p, i + 2)
      ELSE
        LET esc  == ch = "\\" /\ i < Len(p)
            wid  == IF esc THEN 2 ELSE 1
            atom == IF esc
                      THEN IF CharAt(p, i + 1) = "s"
                             THEN [k |-> "ws", c |-> ""]
                             ELSE [k |-> "lit", c |-> CharAt(p, i + 1)]
                      ELSE IF ch = "." THEN [k |-> "any", c |-> ""]
                      ELSE [k |-> "lit", c |-> ch]
            qu   == QuantAt(p, i + wid)
        IN  <<[k |-> atom.k, c |-> atom.c, q |-> qu]>>
              \o ParseFrom(p, i + wid + (IF qu = "1" THEN 0 ELSE 1))

Compile(p) == ParseFrom(p, 1)

\* Does the character ch satisfy the single-character atom a?
CharOk(a, ch) ==
    CASE a.k = "lit" -> ch = a.c
      [] a.k = "any" -> ch # "\n"
      [] a.k = "ws"  -> ch \in SpaceChars
      [] OTHER       -> FALSE

IsWordAt(s, p) == p >= 1 /\ p <= Len(s) /\ CharAt(s, p) \in WordChars

\* The number of consecutive characters of s from pos on that satisfy a.
RECURSIVE Run(_, _, _)
Run(a, s, pos) ==
    IF pos <= Len(s) /\ CharOk(a, CharAt(s, pos)) THEN 1 + Run(a, s, pos + 1) ELSE 0

\* Do the atoms i.. of the compiled pattern match s from position pos?
RECURSIVE MatchAt(_, _, _, _)
MatchAt(atoms, i, s, pos) ==
    IF i > Len(atoms) THEN TRUE
    ELSE LET a == atoms[i] IN
      CASE a.k = "bol" -> pos = 1 /\ MatchAt(atoms, i + 1, s, pos)
        [] a.k = "eol" -> pos = Len(s) + 1 /\ MatchAt(atoms, i + 1, s, pos)
        [] a.k = "wb"  -> IsWordAt(s, pos - 1) # IsWordAt(s, pos)
                            /\ MatchAt(atoms, i + 1, s, pos)
        [] OTHER ->
             IF a.q = "1"
               THEN pos <= Len(s) /\ CharOk(a, CharAt(s, pos))
                      /\ MatchAt(atoms, i + 1, s, pos + 1)
               ELSE \E n \in (IF a.q = "+" THEN 1 ELSE 0) .. Run(a, s, pos) :
                      MatchAt(atoms, i + 1, s, pos + n)

\* pattern.search(s): the pattern matches somewhere in s.
Search(atoms, s) == \E start \in 1 .. Len(s) + 1 : MatchAt(atoms, 1, s, start)

(***************************************************************************)
(* The pattern tables.                                                     *)
(***************************************************************************)

\* COMMAND_RISK_MAP["read"]
ReadPatternSources ==
    << "^ls\\b", "^cat\\b", "^head\\b", "^tail\\b", "^grep\\b",
       "^find\\b.*-type", "^pwd$", "^which\\b", "^echo\\b",
       "^git status\\b", "^git log\\b", "^git diff\\b",
       "^wc\\b", "^file\\b", "^tree\\b", "^less\\b", "^more\\b" >>

\* COMMAND_RISK_MAP["write"]
WritePatternSources ==
    << "^mkdir\\b", "^touch\\b", "^cp\\b", "^mv\\b",
       "^git add\\b", "^git commit\\b", "^npm install\\b",
       "^pip install\\b", "^cargo build\\b", "^make\\b",
       "^npm run\\b", "^yarn\\b", "^pnpm\\b" >>

\* COMMAND_RISK_MAP["high_risk"]
HighRiskPatternSources ==
    << "^rm\\b", "^rmdir\\b", "^git push\\b", "^git reset --hard\\b",
       "^curl\\b", "^wget\\b", "^ssh\\b", "^scp\\b",
       "^chmod\\b", "^chown\\b", "^sudo\\b",
       ".*\\|.*rm\\b",
       ".*>.*" >>

\* COMMAND_BLOCKLIST
COMMAND_BLOCKLIST ==
    << "^rm\\s+-rf\\s+/",
       "^:()\\{\\s*:\\s*\\|\\s*:\\s*&\\s*\\}\\s*;:",
       "^dd\\s+if=.*of=/",
       ".*eval\\s+\\$",
       "^pkill\\b",
       "^killall\\b",
       ".*&&\\s*rm\\b" >>

CompileAll(sources) == [n \in 1 .. Len(sources) |-> Compile(sources[n])]

\* CommandClassifier.__init__: the compiled tables.
blocklist_patterns == CompileAll(COMMAND_BLOCKLIST)
read_patterns      == CompileAll(ReadPatternSources)
write_patterns     == CompileAll(WritePatternSources)
high_risk_patterns == CompileAll(HighRiskPatternSources)

\* The index of the first pattern of the table that matches s, 0 when none does
\* ("for pattern in patterns: if pattern.search(full_command): return ...").
FirstMatch(patterns, s) ==
    LET hits == {n \in 1 .. Len(patterns) : Search(patterns[n], s)}
    IN  IF hits = {} THEN 0 ELSE CHOOSE n \in hits : \A m \in hits : n <= m

(***************************************************************************)
(* CommandClassifier.classify                                              *)
(***************************************************************************)

READ == "READ"
WRITE == "WRITE"
HIGH_RISK == "HIGH_RISK"
RiskLevel == {READ, WRITE, HIGH_RISK}

\* " ".join(args)
RECURSIVE Join(_)
Join(args) ==
    IF Len(args) = 0 THEN ""
    ELSE IF Len(args) = 1 THEN args[1]
    ELSE args[1] \o " " \o Join(Tail(args))

\* str.strip()
RECURSIVE LStrip(_)
LStrip(s) ==
    IF Len(s) > 0 /\ CharAt(s, 1) \in SpaceChars THEN LStrip(SubSeq(s, 2, Len(s))) ELSE s

RECURSIVE RStrip(_)
RStrip(s) ==
    IF Len(s) > 0 /\ CharAt(s, Len(s)) \in SpaceChars
      THEN RStrip(SubSeq(s, 1, Len(s) - 1)) ELSE s

Strip(s) == RStrip(LStrip(s))

\* f"{command} {' '.join(args)}".strip()
FullCommand(command, args) == Strip(command \o " " \o Join(args))

ClassificationResult(command, args, risk_level, is_blocked, block_reason, matched_pattern) ==
    [command |-> command, args |-> args, risk_level |-> risk_level,
     is_blocked |-> is_blocked, block_reason |-> block_reason,
     matched_pattern |-> matched_pattern]

\* "if <layer applies>: return <its result>", and otherwise what follows it.
OrElse(layer, rest) == IF Len(layer) > 0 THEN layer ELSE rest

\* 1. Check blocklist first (always denied).
BlocklistLayer(command, args) ==
    LET b == FirstMatch(blocklist_patterns, FullCommand(command, args))
    IN  IF b # 0
          THEN <<ClassificationResult(command, args, HIGH_RISK, TRUE,
                                      "Command matches blocklist pattern",
                                      COMMAND_BLOCKLIST[b])>>
          ELSE <<>>

\* 2. In paranoid mode, everything requires Supervisor approval.
ParanoidLayer(pm, command, args) ==
    IF pm
      THEN <<ClassificationResult(command, args, HIGH_RISK, FALSE,
                                  "Paranoid mode - Supervisor approval required", None)>>
      ELSE <<>>

\* The manifest layer with its two tests in the other order.
ManifestLayer_WriteFirst(mf, command, args) ==
    IF Len(mf) > 0 /\ command \in mf[1].write_commands
      THEN <<ClassificationResult(command, args, WRITE, FALSE, None, None)>>
    ELSE IF Len(mf) > 0 /\ command \in mf[1].safe_commands
      THEN <<ClassificationResult(command, args, READ, FALSE, None, None)>>
    ELSE <<>>

\* 3. Check manifest-based classification if available.
ManifestLayer(mf, command, args) ==
    IF Len(mf) > 0 /\ command \in mf[1].safe_commands
      THEN <<ClassificationResult(command, args, READ, FALSE, None, None)>>
    ELSE IF Len(mf) > 0 /\ command \in mf[1].write_commands
      THEN <<ClassificationResult(command, args, WRITE, FALSE, None, None)>>
    ELSE <<>>

\* The default patterns with the high-risk group tested first.
DefaultLayer_HighRiskFirst(command, args) ==
    LET full_command == FullCommand(command, args)
        r == FirstMatch(read_patterns, full_command)
        w == FirstMatch(write_patterns, full_command)
        h == FirstMatch(high_risk_patterns, full_command)
    IN  IF h # 0
          THEN <<ClassificationResult(command, args, HIGH_RISK, FALSE, None,
                                      HighRiskPatternSources[h])>>
        ELSE IF r # 0
          THEN <<ClassificationResult(command, args, READ, FALSE, None,
                                      ReadPatternSources[r])>>
        ELSE IF w # 0
          THEN <<ClassificationResult(command, args, WRITE, FALSE, None,
                                      WritePatternSources[w])>>
        ELSE <<>>

\* 4. Fallback to regex pattern matching: read, then write, then high-risk.
DefaultLayer(command, args) ==
    LET full_command == FullCommand(command, args)
        r == FirstMatch(read_patterns, full_command)
        w == FirstMatch(write_patterns, full_command)
        h == FirstMatch(high_risk_patterns, full_command)
    IN  IF r # 0
          THEN <<ClassificationResult(command, args, READ, FALSE, None,
                                      ReadPatternSources[r])>>
        ELSE IF w # 0
          THEN <<ClassificationResult(command, args, WRITE, FALSE, None,
                                      WritePatternSources[w])>>
        ELSE IF h # 0
          THEN <<ClassificationResult(command, args, HIGH_RISK, FALSE, None,
                                      HighRiskPatternSources[h])>>
        ELSE <<>>

\* The last layer defaulting to READ instead.
UnknownLayer_FailOpen(command, args) ==
    <<ClassificationResult(command, args, READ, FALSE,
                           "Unknown command - defaulting to HIGH_RISK", None)>>

\* 5. Default: unknown commands are HIGH_RISK.
UnknownLayer(command, args) ==
    <<ClassificationResult(command, args, HIGH_RISK, FALSE,
                           "Unknown command - defaulting to HIGH_RISK", None)>>

\* classify with paranoid mode tested before the blocklist.
Classify_ParanoidFirst(mf, pm, command, args) ==
    OrElse(ParanoidLayer(pm, command, args),
    OrElse(BlocklistLayer(command, args),
    OrElse(ManifestLayer(mf, command, args),
    OrElse(DefaultLayer(command, args),
    UnknownLayer(command, args)))))[1]

\* classify with the manifest tested before paranoid mode.
Classify_ManifestBeforeParanoid(mf, pm, command, args) ==
    OrElse(BlocklistLayer(command, args),
    OrElse(ManifestLayer(mf, command, args),
    OrElse(ParanoidLayer(pm, command, args),
    OrElse(DefaultLayer(command, args),
    UnknownLayer(command, args)))))[1]

\* classify(command, args) of a classifier holding manifest mf (<<>> for None)
\* and the paranoid flag pm: the layers in the order of the code, each
\* returning from the function when it applies.
Classify(mf, pm, command, args) ==
    OrElse(BlocklistLayer(command, args),
    OrElse(ParanoidLayer(pm, command, args),
    OrElse(ManifestLayer(mf, command, args),
    OrElse(DefaultLayer(command, args),
    UnknownLayer(command, args)))))[1]

(***************************************************************************)
(* Audit primitives: TerminalAction, TerminalSession, hashing, Merkle root *)
(***************************************************************************)

\* SHA-256 is modelled as an injective constructor, one per kind of input:
\* the canonical JSON of an action, the concatenation of two hex digests, and
\* a literal byte string.
Sha256Json(data)     == [sha256_json |-> data]
Sha256Concat(h1, h2) == [sha256_concat |-> <<h1, h2>>]
Sha256Bytes(text)    == [sha256_bytes |-> text]

\* hashlib.sha256(text.encode()).hexdigest()[:16] if text else ""
Digest16(text) == IF text = "" THEN "" ELSE "sha256[:16](" \o text \o ")"

\* TerminalAction(...): exit_code is <<>> for None and <<code>> otherwise.
TerminalAction(action_id, session_id, timestamp, command, args, cwd, risk_level, exit_code, stdout_hash, stderr_hash) ==
    [action_id |-> action_id, session_id |-> session_id, timestamp |-> timestamp,
     command |-> command, args |-> args, cwd |-> cwd, risk_level |-> risk_level,
     exit_code |-> exit_code, stdout_hash |-> stdout_hash, stderr_hash |-> stderr_hash]

\* TerminalAction.compute_hash
compute_hash(action) ==
    Sha256Json([action_id |-> action.action_id, session_id |-> action.session_id,
                timestamp |-> action.timestamp, command |-> action.command,
                args |-> action.args, cwd |-> action.cwd,
                risk_level |-> action.risk_level, exit_code |-> action.exit_code])

\* TerminalSession(...); created_at, which no operation reads, is left out.
TerminalSession(session_id, project_root, actions, is_active) ==
    [session_id |-> session_id, project_root |-> project_root,
     actions |-> actions, is_active |-> is_active]

\* One level of the tree with an unpaired last hash carried up as it is.
MerkleLevel_CarryLast(hashes) ==
    LET pairs == [i \in 1 .. Len(hashes) \div 2 |->
                    Sha256Concat(hashes[2 * i - 1], hashes[2 * i])]
    IN  IF Len(hashes) % 2 = 1 THEN Append(pairs, hashes[Len(hashes)]) ELSE pairs

\* One level of the tree: the last hash duplicated when the level is odd, then
\* each adjacent pair replaced by the hash of its concatenation.
MerkleLevel(hashes) ==
    LET padded == IF Len(hashes) % 2 = 1
                    THEN Append(hashes, hashes[Len(hashes)]) ELSE hashes
    IN  [i \in 1 .. Len(padded) \div 2 |-> Sha256Concat(padded[2 * i - 1], padded[2 * i])]

RECURSIVE MerkleReduce(_)
MerkleReduce(hashes) ==
    IF Len(hashes) > 1 THEN MerkleReduce(MerkleLevel(hashes)) ELSE hashes[1]

\* TerminalSession.compute_merkle_root
compute_merkle_root(actions) ==
    IF Len(actions) = 0 THEN Sha256Bytes("empty")
    ELSE MerkleReduce([i \in 1 .. Len(actions) |-> compute_hash(actions[i])])

(***************************************************************************)
(* WriteAheadLog                                                           *)
(***************************************************************************)

\* WALEntry(...) as append builds it from an action.
WALEntry(sequence, action) ==
    [sequence |-> sequence, action_id |-> action.action_id,
     session_id |-> action.session_id, timestamp |-> action.timestamp,
     command |-> action.command, args |-> action.args, cwd |-> action.cwd,
     risk_level |-> action.risk_level]

\* A line of a WAL file: the JSON text of an entry followed by "\n", or a
\* prefix of such a text that a crash cut short (kind "torn").
EntryLine(entry) == [kind |-> "entry", entry |-> entry]
TornLine(entry)  == [kind |-> "torn", entry |-> entry]

\* A WAL file that was never opened for writing does not exist.
NoFile == [exists |-> FALSE, lines |-> <<>>]

\* The file after text was written at its end: text appended after a torn
\* last line continues that line.
FileAppend(file, line) ==
    IF Len(file.lines) > 0 /\ file.lines[Len(file.lines)].kind = "torn"
      THEN [exists |-> TRUE,
            lines |-> [file.lines EXCEPT ![Len(file.lines)] =
                          TornLine(file.lines[Len(file.lines)].entry)]]
      ELSE [exists |-> TRUE, lines |-> Append(file.lines, line)]

\* WriteAheadLog.append: the file and the sequence counter afterwards.
WalAppend(file, sequence, action) ==
    [file |-> FileAppend(file, EntryLine(WALEntry(sequence, action))),
     sequence |-> sequence + 1]

\* The action recover builds from one parsed line: exit code and digests are
\* not in the WAL and take the dataclass defaults.
ActionOfEntry(data) ==
    TerminalAction(data.action_id, data.session_id, data.timestamp, data.command,
                   data.args, data.cwd, data.risk_level, <<>>, "", "")

\* WriteAheadLog.recover: json.loads raises on a line that is not a JSON text.
WalRecover(file) ==
    IF ~file.exists THEN [raised |-> FALSE, actions |-> <<>>]
    ELSE IF \E i \in 1 .. Len(file.lines) : file.lines[i].kind = "torn"
      THEN [raised |-> TRUE, actions |-> <<>>]
    ELSE [raised |-> FALSE,
          actions |-> [i \in 1 .. Len(file.lines) |-> ActionOfEntry(file.lines[i].entry)]]

\* WriteAheadLog.truncate: the file afterwards (the counter is reset to 0).
WalTruncate(file) ==
    IF file.exists THEN [exists |-> TRUE, lines |-> <<>>] ELSE file

(***************************************************************************)
(* SessionManager                                                          *)
(***************************************************************************)

\* Bounds of the model.
MaxSessions == 2    \* session ids of the model: "s1" .. "s2"
MaxCreated  == 1    \* sessions created in a behaviour of Spec
MaxActions  == 2    \* record_action calls that construct an action
MaxCrashes  == 1    \* crashes of the process
MaxCalls    == 1    \* request handlers suspended in the anchor callback at once
TimeStep    == 10   \* minutes by which the modelled clock advances
MaxTime     == 10   \* the clock stops advancing beyond this

\* SessionManager.ANCHOR_INTERVAL = timedelta(minutes=10)
ANCHOR_INTERVAL == 10

\* uuid.uuid4(): the n-th fresh identifier of each kind.
SessionId(n) == "s" \o ToString(n)
ActionId(n)  == "a" \o ToString(n)

AllSessionIds == {SessionId(n) : n \in 1 .. MaxSessions}

\* The project root the manager is constructed with.
project_root == "/proj"

\* The arguments record_action is called with.
RecordInputs ==
    { [command |-> "ls", args |-> <<"-la">>, cwd |-> "/proj", risk_level |-> READ,
       exit_code |-> <<0>>, stdout |-> "total 0", stderr |-> ""],
      [command |-> "mkdir", args |-> <<"new_dir">>, cwd |-> "/proj/src",
       risk_level |-> WRITE, exit_code |-> <<1>>, stdout |-> "", stderr |-> "exists"] }

\* dict[key] = value
Put(dict, key, value) ==
    [k \in DOMAIN dict \cup {key} |-> IF k = key THEN value ELSE dict[k]]

\* The keys of a dict after dict[key] = value: a new key goes last.
PutKey(keys, key) ==
    IF \E i \in 1 .. Len(keys) : keys[i] = key THEN keys ELSE Append(keys, key)

\* datetime.min: earlier than every time of the model by more than the interval.
DatetimeMin == 0 - (MaxTime + ANCHOR_INTERVAL + 1)

\* self._last_anchor.get(session_id, datetime.min)
LastAnchor(session_id) ==
    IF session_id \in DOMAIN last_anchor THEN last_anchor[session_id] ELSE DatetimeMin

\* The value of a call that returned None or raised.
NoValue == [none |-> TRUE]

\* What a call returned: a value, None, or an exception.
Ret(op, session_id, outcome, value) ==
    [op |-> op, session_id |-> session_id, outcome |-> outcome, value |-> value]

\* The asyncio event loop runs one synchronous section at a time: nothing else
\* of the manager runs while a record_action call is between its steps.
Idle == rec = <<>>

ActionIds(actions) == {actions[i].action_id : i \in 1 .. Len(actions)}

InitManager ==
    /\ sessions = <<>>
    /\ session_keys = <<>>
    /\ wals = <<>>
    /\ last_anchor = <<>>
    /\ rec = <<>>
    /\ calls = {}
    /\ loop = [awaiting |-> FALSE, todo |-> <<>>]
    /\ ret = Ret("start", "", "none", NoValue)
    /\ wal_files = [sid \in AllSessionIds |-> NoFile]
    /\ now = 0
    /\ next_session = 1
    /\ next_action = 1
    /\ crashes = 0
    /\ fsynced = {}
    /\ returned = {}
    /\ anchored = {}
    /\ since_anchor = [sid \in AllSessionIds |-> "fresh"]
    /\ failed_anchor = {}

\* SessionManager.create_session
CreateSession ==
    /\ Idle
    /\ next_session <= budget.sessions
    /\ LET sid == SessionId(next_session) IN
         /\ sessions' = Put(sessions, sid,
                            TerminalSession(sid, project_root, <<>>, TRUE))
         /\ session_keys' = PutKey(session_keys, sid)
         /\ wals' = Put(wals, sid, [session_id |-> sid, sequence |-> 0])
         /\ last_anchor' = Put(last_anchor, sid, now)
    /\ next_session' = next_session + 1
    /\ UNCHANGED <<cvars, xvars, anchor_callback, rec, calls, loop, ret, wal_files, now,
                   next_action, crashes, budget, hvars>>

\* SessionManager.record_action, up to the WAL append: the session lookup and
\* the construction of the action.
RecordBegin(session_id, inp) ==
    /\ Idle
    /\ IF session_id \notin DOMAIN sessions
         THEN /\ ret' = Ret("record_action", session_id, "raised", NoValue)
              /\ UNCHANGED <<rec, next_action>>
         ELSE /\ next_action <= budget.actions
              /\ rec' = << [session_id |-> session_id, pc |-> "wal_append",
                            action |-> TerminalAction(ActionId(next_action), "", now,
                                          inp.command, inp.args, inp.cwd,
                                          inp.risk_level, inp.exit_code,
                                          Digest16(inp.stdout), Digest16(inp.stderr))] >>
              /\ next_action' = next_action + 1
              /\ UNCHANGED ret
    /\ UNCHANGED <<cvars, xvars, sessions, session_keys, wals, last_anchor, anchor_callback,
                   calls, loop, wal_files, now, next_session, crashes, budget, hvars>>

\* record_action, step 1: wal.append(action) writes the entry and fsyncs it.
RecordWalAppend ==
    /\ rec # <<>>
    /\ rec[1].pc = "wal_append"
    /\ LET r == rec[1]
           sid == r.session_id
       IN  /\ IF sid \in DOMAIN wals
                THEN LET res == WalAppend(wal_files[sid], wals[sid].sequence, r.action)
                     IN  /\ wal_files' = [wal_files EXCEPT ![sid] = res.file]
                         /\ wals' = [wals EXCEPT ![sid].sequence = res.sequence]
                         /\ fsynced' = fsynced \cup {r.action.action_id}
                         /\ since_anchor' = [since_anchor EXCEPT ![sid] = "dirty"]
                ELSE UNCHANGED <<wal_files, wals, fsynced, since_anchor>>
           /\ rec' = <<[r EXCEPT !.pc = "add_action"]>>
    /\ UNCHANGED <<cvars, xvars, sessions, session_keys, last_anchor, anchor_callback, calls,
                   loop, ret, now, next_session, next_action, crashes, budget, returned,
                   anchored, failed_anchor>>

\* record_action going on to add_action although wal.append raised.
RecordWalFail_Swallowed ==
    /\ rec # <<>>
    /\ rec[1].pc = "wal_append"
    /\ rec' = <<[rec[1] EXCEPT !.pc = "add_action"]>>
    /\ UNCHANGED <<cvars, xvars, sessions, session_keys, wals, last_anchor, anchor_callback,
                   calls, loop, ret, wal_files, now, next_session, next_action, crashes, budget,
                   hvars>>

\* record_action, step 1 failing: the WAL cannot be written (open, write or
\* fsync raises OSError) and the exception leaves record_action.
RecordWalFail ==
    /\ rec # <<>>
    /\ rec[1].pc = "wal_append"
    /\ rec' = <<>>
    /\ ret' = Ret("record_action", rec[1].session_id, "raised", NoValue)
    /\ UNCHANGED <<cvars, xvars, sessions, session_keys, wals, last_anchor, anchor_callback,
                   calls, loop, wal_files, now, next_session, next_action, crashes, budget,
                   hvars>>

\* record_action, step 2: session.add_action(action) sets the action's session
\* id and appends it; the action hash is returned.
RecordAddAction ==
    /\ rec # <<>>
    /\ rec[1].pc = "add_action"
    /\ LET sid == rec[1].session_id
           action == [rec[1].action EXCEPT !.session_id = sessions[sid].session_id]
       IN  /\ sessions' = [sessions EXCEPT ![sid].actions = Append(@, action)]
           /\ ret' = Ret("record_action", sid, "value", compute_hash(action))
           /\ returned' = returned \cup { [action_id |-> action.action_id,
                                           session_id |-> sid, crashes |-> crashes,
                                           audit_hash |-> compute_hash(action)] }
    /\ rec' = <<>>
    /\ UNCHANGED <<cvars, xvars, session_keys, wals, last_anchor, anchor_callback, calls, loop,
                   wal_files, now, next_session, next_action, crashes, budget, fsynced,
                   anchored, since_anchor, failed_anchor>>

\* What the caller of anchor_session does with its result: a request handler
\* returns it, close_session returns it, the anchor loop drops it.
AnchorRet(caller, session_id, outcome, value) ==
    CASE caller = "api"   -> Ret("anchor_session", session_id, outcome, value)
      [] caller = "close" -> Ret("close_session", session_id, outcome, value)
      [] caller = "loop"  -> ret

\* anchor_session returning None at once for an unknown session only.
AnchorSkips_UnknownOnly(session_id, immediate) ==
    session_id \notin DOMAIN sessions

\* anchor_session returns None at once: the session is unknown, or the call is
\* not immediate and less than the interval has passed since the last anchor.
AnchorSkips(session_id, immediate) ==
    \/ session_id \notin DOMAIN sessions
    \/ ~immediate /\ now - LastAnchor(session_id) < ANCHOR_INTERVAL

\* anchor_session reaches "await self.anchor_callback(...)" and is suspended.
AnchorSuspends(session_id, immediate) ==
    ~AnchorSkips(session_id, immediate) /\ anchor_callback

\* anchor_session completing without truncating the WAL.
AnchorFinish_NoTruncate(session_id, merkle_root, caller, covered) ==
    /\ last_anchor' = Put(last_anchor, session_id, now)
    /\ ret' = AnchorRet(caller, session_id, "value", merkle_root)
    /\ since_anchor' = [since_anchor EXCEPT ![session_id] = "anchored"]
    /\ failed_anchor' = failed_anchor \ {session_id}
    /\ anchored' = anchored \cup covered
    /\ UNCHANGED <<wal_files, wals>>

\* anchor_session after the callback (if any) has not raised: truncate the WAL,
\* set the last-anchor time, return the root.
AnchorFinish(session_id, merkle_root, caller, covered) ==
    /\ IF session_id \in DOMAIN wals
         THEN /\ wal_files' = [wal_files EXCEPT ![session_id] = WalTruncate(@)]
              /\ wals' = [wals EXCEPT ![session_id].sequence = 0]
         ELSE UNCHANGED <<wal_files, wals>>
    /\ last_anchor' = Put(last_anchor, session_id, now)
    /\ ret' = AnchorRet(caller, session_id, "value", merkle_root)
    /\ since_anchor' = [since_anchor EXCEPT ![session_id] = "anchored"]
    /\ failed_anchor' = failed_anchor \ {session_id}
    /\ anchored' = anchored \cup covered

\* The coroutines suspended in the anchor callback are told apart by a task
\* number: a new one takes the least number that is not in use.
FreeTask ==
    CHOOSE n \in 1 .. Cardinality(calls) + 1 :
        /\ \A c \in calls : c.task # n
        /\ \A m \in 1 .. n - 1 : \E c \in calls : c.task = m

\* anchor_session from its entry to its first suspension or its return.  A
\* suspended call remembers the root it computed; covered names the actions
\* that root was computed over.
AnchorStart(session_id, immediate, caller) ==
    IF AnchorSkips(session_id, immediate)
      THEN /\ ret' = AnchorRet(caller, session_id, "none", NoValue)
           /\ failed_anchor' = failed_anchor \ {session_id}
           /\ UNCHANGED <<calls, wal_files, wals, last_anchor, since_anchor, anchored>>
      ELSE LET merkle_root == compute_merkle_root(sessions[session_id].actions) IN
           IF anchor_callback
             THEN /\ calls' = calls \cup
                       { [session_id |-> session_id, merkle_root |-> merkle_root,
                          caller |-> caller, task |-> FreeTask,
                          covered |-> ActionIds(sessions[session_id].actions)] }
                  /\ failed_anchor' = failed_anchor \ {session_id}
                  /\ UNCHANGED <<ret, wal_files, wals, last_anchor, since_anchor,
                                 anchored>>
             ELSE /\ AnchorFinish(session_id, merkle_root, caller,
                                  ActionIds(sessions[session_id].actions))
                  /\ UNCHANGED calls

HandlerCalls == {c \in calls : c.caller # "loop"}

\* A request handler calls anchor_session(session_id, immediate).
AnchorSessionCall(session_id, immediate) ==
    /\ Idle
    /\ Cardinality(HandlerCalls) < MaxCalls
    /\ AnchorStart(session_id, immediate, "api")
    /\ UNCHANGED <<cvars, xvars, sessions, session_keys, anchor_callback, rec, loop, now,
                   next_session, next_action, crashes, budget, fsynced, returned>>

\* close_session with a final anchor that respects the interval.
CloseSession_RespectInterval(session_id) ==
    /\ Idle
    /\ Cardinality(HandlerCalls) < MaxCalls
    /\ IF session_id \notin DOMAIN sessions
         THEN /\ ret' = Ret("close_session", session_id, "none", NoValue)
              /\ UNCHANGED <<sessions, calls, wal_files, wals, last_anchor,
                             since_anchor, failed_anchor, anchored>>
         ELSE /\ sessions' = [sessions EXCEPT ![session_id].is_active = FALSE]
              /\ AnchorStart(session_id, FALSE, "close")
    /\ UNCHANGED <<cvars, xvars, session_keys, anchor_callback, rec, loop, now, next_session,
                   next_action, crashes, budget, fsynced, returned>>

\* SessionManager.close_session
CloseSession(session_id) ==
    /\ Idle
    /\ Cardinality(HandlerCalls) < MaxCalls
    /\ IF session_id \notin DOMAIN sessions
         THEN /\ ret' = Ret("close_session", session_id, "none", NoValue)
              /\ UNCHANGED <<sessions, calls, wal_files, wals, last_anchor,
                             since_anchor, failed_anchor, anchored>>
         ELSE /\ sessions' = [sessions EXCEPT ![session_id].is_active = FALSE]
              /\ AnchorStart(session_id, TRUE, "close")
    /\ UNCHANGED <<cvars, xvars, session_keys, anchor_callback, rec, loop, now, next_session,
                   next_action, crashes, budget, fsynced, returned>>

\* The task the callback suspended goes on, in the anchor loop.
LoopResumed(c) == IF c.caller = "loop" THEN [loop EXCEPT !.awaiting = FALSE] ELSE loop

\* What the awaited anchor callback evaluates to when it does not raise.
CallbackResults == {"success", "failure"}

\* The anchor callback of a suspended call returns without raising: the value
\* of the await expression is dropped.
AnchorCallbackReturns(c, result) ==
    /\ Idle
    /\ c \in calls
    /\ calls' = calls \ {c}
    /\ AnchorFinish(c.session_id, c.merkle_root, c.caller, c.covered)
    /\ loop' = LoopResumed(c)
    /\ UNCHANGED <<cvars, xvars, sessions, session_keys, anchor_callback, rec, now,
                   next_session, next_action, crashes, budget, fsynced, returned>>

\* The anchor callback of a suspended call raises and anchor_session lets the
\* exception through: it ends the task of the anchor loop.
AnchorCallbackRaises_Propagates(c) ==
    /\ Idle
    /\ c \in calls
    /\ calls' = calls \ {c}
    /\ ret' = AnchorRet(c.caller, c.session_id, "raised", NoValue)
    /\ failed_anchor' = failed_anchor \cup {c.session_id}
    /\ loop' = IF c.caller = "loop" THEN [awaiting |-> TRUE, todo |-> <<>>] ELSE loop
    /\ UNCHANGED <<cvars, xvars, sessions, session_keys, wals, last_anchor, anchor_callback,
                   rec, wal_files, now, next_session, next_action, crashes, budget, fsynced,
                   returned, anchored, since_anchor>>

\* The anchor callback of a suspended call raises: logged, None is returned.
AnchorCallbackRaises(c) ==
    /\ Idle
    /\ c \in calls
    /\ calls' = calls \ {c}
    /\ ret' = AnchorRet(c.caller, c.session_id, "none", NoValue)
    /\ failed_anchor' = failed_anchor \cup {c.session_id}
    /\ loop' = LoopResumed(c)
    /\ UNCHANGED <<cvars, xvars, sessions, session_keys, wals, last_anchor, anchor_callback,
                   rec, wal_files, now, next_session, next_action, crashes, budget, fsynced,
                   returned, anchored, since_anchor>>

\* SessionManager.recover_session
RecoverSession(session_id) ==
    /\ Idle
    /\ LET res == WalRecover(wal_files[session_id]) IN
         IF res.raised
           THEN /\ ret' = Ret("recover_session", session_id, "raised", NoValue)
                /\ UNCHANGED <<sessions, session_keys, wals>>
         ELSE IF Len(res.actions) = 0
           THEN /\ ret' = Ret("recover_session", session_id, "none", NoValue)
                /\ UNCHANGED <<sessions, session_keys, wals>>
         ELSE /\ sessions' = Put(sessions, session_id,
                                 TerminalSession(session_id, "", res.actions, TRUE))
              /\ session_keys' = PutKey(session_keys, session_id)
              /\ wals' = Put(wals, session_id, [session_id |-> session_id, sequence |-> 0])
              /\ ret' = Ret("recover_session", session_id, "value",
                            TerminalSession(session_id, "", res.actions, TRUE))
    /\ UNCHANGED <<cvars, xvars, last_anchor, anchor_callback, rec, calls, loop, wal_files, now,
                   next_session, next_action, crashes, budget, hvars>>

\* _anchor_loop: the iteration is over and asyncio.sleep(60) has passed; the
\* keys are listed for the next iteration.
LoopWake ==
    /\ Idle
    /\ ~loop.awaiting
    /\ Len(loop.todo) = 0
    /\ loop' = [loop EXCEPT !.todo = session_keys]
    /\ UNCHANGED <<cvars, xvars, sessions, session_keys, wals, last_anchor, anchor_callback,
                   rec, calls, ret, evars, hvars>>

\* self.sessions.get(session_id, TerminalSession()).is_active
LoopSeesActive(session_id) ==
    IF session_id \in DOMAIN sessions THEN sessions[session_id].is_active ELSE TRUE

\* _anchor_loop: the next id is of an active session: anchor_session(session_id).
LoopAnchor ==
    /\ Idle
    /\ ~loop.awaiting
    /\ Len(loop.todo) > 0
    /\ LET sid == Head(loop.todo) IN
         /\ LoopSeesActive(sid)
         /\ AnchorStart(sid, FALSE, "loop")
         /\ loop' = [awaiting |-> AnchorSuspends(sid, FALSE), todo |-> Tail(loop.todo)]
    /\ UNCHANGED <<cvars, xvars, sessions, session_keys, anchor_callback, rec, now,
                   next_session, next_action, crashes, budget, fsynced, returned>>

\* _anchor_loop: the next id is of a session that is not active: passed over.
LoopSkipInactive ==
    /\ Idle
    /\ ~loop.awaiting
    /\ Len(loop.todo) > 0
    /\ ~LoopSeesActive(Head(loop.todo))
    /\ loop' = [loop EXCEPT !.todo = Tail(loop.todo)]
    /\ UNCHANGED <<cvars, xvars, sessions, session_keys, wals, last_anchor, anchor_callback,
                   rec, calls, ret, evars, hvars>>

\* Time passes.
Tick ==
    /\ Idle
    /\ now + TimeStep <= MaxTime
    /\ now' = now + TimeStep
    /\ UNCHANGED <<cvars, xvars, mvars, wal_files, next_session, next_action, crashes, budget, hvars>>

\* The process dies and is started again: a new manager with nothing in
\* memory and a new anchor loop; the files and the uuid source are as before.
Restarted ==
    /\ sessions' = <<>>
    /\ session_keys' = <<>>
    /\ wals' = <<>>
    /\ last_anchor' = <<>>
    /\ rec' = <<>>
    /\ calls' = {}
    /\ loop' = [awaiting |-> FALSE, todo |-> <<>>]
    /\ ret' = Ret("start", "", "none", NoValue)
    /\ crashes' = crashes + 1
    /\ failed_anchor' = {}
    /\ UNCHANGED <<cvars, xvars, anchor_callback, now, next_session, next_action, budget>>

\* A crash at any point, between or inside calls.
Crash ==
    /\ crashes < budget.crashes
    /\ Restarted
    /\ UNCHANGED <<wal_files, fsynced, returned, anchored, since_anchor>>

\* A crash while wal.append is writing: a prefix of the line is on disk.
CrashTornWrite ==
    /\ crashes < budget.crashes
    /\ rec # <<>>
    /\ rec[1].pc = "wal_append"
    /\ rec[1].session_id \in DOMAIN wals
    /\ LET sid == rec[1].session_id IN
         /\ wal_files' = [wal_files EXCEPT ![sid] =
                FileAppend(@, TornLine(WALEntry(wals[sid].sequence, rec[1].action)))]
         /\ since_anchor' = [since_anchor EXCEPT ![sid] = "dirty"]
    /\ Restarted
    /\ UNCHANGED <<fsynced, returned, anchored>>

NextManager ==
    \/ CreateSession
    \/ \E sid \in AllSessionIds, inp \in RecordInputs : RecordBegin(sid, inp)
    \/ RecordWalAppend
    \/ RecordWalFail
    \/ RecordAddAction
    \/ \E sid \in AllSessionIds, immediate \in BOOLEAN : AnchorSessionCall(sid, immediate)
    \/ \E sid \in AllSessionIds : CloseSession(sid)
    \/ \E c \in calls, result \in CallbackResults : AnchorCallbackReturns(c, result)
    \/ \E c \in calls : AnchorCallbackRaises(c)
    \/ \E sid \in AllSessionIds : RecoverSession(sid)
    \/ LoopWake
    \/ LoopAnchor
    \/ LoopSkipInactive
    \/ Tick
    \/ Crash
    \/ CrashTornWrite

(***************************************************************************)
(* The request handler (main.py) and the executors' environment            *)
(***************************************************************************)

\* str.startswith
StartsWith(s, prefix) ==
    Len(s) >= Len(prefix) /\ SubSeq(s, 1, Len(prefix)) = prefix

\* path.split("/")
RECURSIVE SplitFrom(_, _, _, _)
SplitFrom(s, i, cur, acc) ==
    IF i > Len(s) THEN Append(acc, cur)
    ELSE IF CharAt(s, i) = "/" THEN SplitFrom(s, i + 1, "", Append(acc, cur))
    ELSE SplitFrom(s, i + 1, cur \o CharAt(s, i), acc)

SplitPath(s) == SplitFrom(s, 1, "", <<>>)

\* os.path.normpath of an absolute path, on its components: empty components
\* and "." are dropped, ".." removes the component before it (none at the root).
RECURSIVE NormParts(_, _, _)
NormParts(parts, i, acc) ==
    IF i > Len(parts) THEN acc
    ELSE IF parts[i] = "" \/ parts[i] = "." THEN NormParts(parts, i + 1, acc)
    ELSE IF parts[i] = ".."
      THEN NormParts(parts, i + 1,
                     IF Len(acc) > 0 THEN SubSeq(acc, 1, Len(acc) - 1) ELSE acc)
    ELSE NormParts(parts, i + 1, Append(acc, parts[i]))

\* "/".join(parts)
RECURSIVE JoinParts(_)
JoinParts(parts) ==
    IF Len(parts) = 0 THEN ""
    ELSE IF Len(parts) = 1 THEN parts[1]
    ELSE parts[1] \o "/" \o JoinParts(Tail(parts))

\* os.getcwd() of the adapter process.
Getcwd == "/srv/adapter"

\* The components of os.path.abspath(path).
AbsParts(path) ==
    NormParts(SplitPath(IF StartsWith(path, "/") THEN path ELSE Getcwd \o "/" \o path),
              1, <<>>)

\* os.path.abspath(path): two leading slashes (and only two) are kept.
abspath(path) ==
    LET slashes == IF StartsWith(path, "//") /\ ~StartsWith(path, "///")
                     THEN "//" ELSE "/"
    IN  slashes \o JoinParts(AbsParts(path))

\* An environment with no variable.
NoEnv == <<>>

\* os.getenv(key, default)
Getenv(env, key, default) == IF key \in DOMAIN env THEN env[key] ELSE default

\* os.environ of the adapter process at startup: an ordinary one, one with no
\* PATH and HOME, and one whose launcher set loader variables and a secret.
HostEnvs ==
    { [PATH |-> "/usr/local/bin:/usr/bin", HOME |-> "/home/talos", TALOS_ENV |-> "dev"],
      [TALOS_ENV |-> "production"],
      [PATH |-> "/usr/bin", HOME |-> "/root", LD_LIBRARY_PATH |-> "/opt/cuda/lib64",
       AWS_SECRET_ACCESS_KEY |-> "hunter2"] }

\* There has been no terminal_execute call yet.
NoResponse == [status |-> 0, detail |-> "", session_id |-> "", audit_hash |-> NoValue]

\* What a call of the PTY executor returned: a value, or an exception.
PtyRet(op, session_id, outcome, value) ==
    [op |-> op, session_id |-> session_id, outcome |-> outcome, value |-> value]

\* What is at the path TALOS_POLICY_MANIFEST names: nothing, a file that is
\* not JSON, or a manifest.
ManifestFile(kind, mf) == [kind |-> kind, manifest |-> mf]

\* lifespan has run; no manifest file is looked at any more.
Started == startup = [done |-> TRUE, file |-> ManifestFile("missing", <<>>)]

\* The handler and the executors before any request.
InitHandler ==
    /\ exec = <<>>
    /\ response = NoResponse
    /\ children = <<>>
    /\ pty_sessions = <<>>
    /\ read_tasks = <<>>
    /\ pty_ret = PtyRet("start", "", "none", NoValue)
    /\ procs = <<>>
    /\ fds = {}
    /\ tty = <<>>
    /\ pty_hist = [signals |-> <<>>, writes |-> <<>>, produced |-> <<>>,
                   consumed |-> <<>>]

(***************************************************************************)
(* compute_merkle_root as a state machine: the root of a session's action  *)
(* list is computed, for lists of recorded actions of every length up to   *)
(* MaxMerkleLen.                                                           *)
(***************************************************************************)

MaxMerkleLen == 6

\* The n-th action recorded in session "s1" from the input inp.
RecordedAction(n, inp) ==
    TerminalAction(ActionId(n), SessionId(1), 0, inp.command, inp.args, inp.cwd,
                   inp.risk_level, inp.exit_code,
                   Digest16(inp.stdout), Digest16(inp.stderr))

\* The action lists a session can hold: the n-th action has the n-th id.
ActionLists ==
    UNION { { [i \in 1 .. n |-> RecordedAction(i, f[i])] : f \in [1 .. n -> RecordInputs] }
            : n \in 0 .. MaxMerkleLen }

InitMerkle ==
    /\ manifest = <<>>
    /\ paranoid_mode = FALSE
    /\ classification = <<>>
    /\ anchor_callback = TRUE
    /\ budget = [sessions |-> MaxCreated, actions |-> MaxActions, crashes |-> MaxCrashes]
    /\ InitManager
    /\ host_env = NoEnv
    /\ InitHandler
    /\ Started
    /\ merkle = <<>>

\* session.compute_merkle_root() on a session holding these actions.
ComputeMerkleRoot(actions) ==
    /\ merkle = <<>>
    /\ merkle' = <<[actions |-> actions, root |-> compute_merkle_root(actions)]>>
    /\ UNCHANGED <<cvars, mvars, evars, hvars, host_env, exec, response, children,
                   pty_sessions, pvars>>

\* The root has been used; the next call can be made.
DropRoot ==
    /\ merkle # <<>>
    /\ merkle' = <<>>
    /\ UNCHANGED <<cvars, mvars, evars, hvars, host_env, exec, response, children,
                   pty_sessions, pvars>>

NextMerkle ==
    \/ \E actions \in ActionLists : ComputeMerkleRoot(actions)
    \/ DropRoot

SpecMerkle == InitMerkle /\ [][NextMerkle]_vars

(***************************************************************************)
(* The classifier as a state machine: a classifier is constructed with a   *)
(* manifest and a paranoid flag, and classify is called on requests.       *)
(***************************************************************************)

\* Bound on the number of arguments of an enumerated request.
MaxArgs == 2

\* Command names of the enumerated requests.
Commands ==
    {"ls", "echo", "git", "mkdir", "rm", "pkill",
     "custom_read_tool", "custom_write_tool", "my_custom_binary"}

\* Argument strings of the enumerated requests.
ArgTokens == {"-rf", "/", ">", "file.txt", "status", "&&", "rm"}

\* The argument lists of the classifier's own tests (tests/test_classifier.py).
TestArgLists ==
    { <<"-la">>, <<"-rf", "/">>, <<"-rf /">>, <<"-rf", "/var">>,
      <<"test", ">", "file.txt">>, <<"--dangerous">>, <<"-p", "new_dir">>,
      <<"push", "origin", "main">> }

ArgLists ==
    UNION {[1 .. n -> ArgTokens] : n \in 0 .. MaxArgs} \cup TestArgLists

PolicyManifest(version, safe_commands, write_commands, blocked_patterns, signature) ==
    [version |-> version, safe_commands |-> safe_commands,
     write_commands |-> write_commands, blocked_patterns |-> blocked_patterns,
     signature |-> signature]

\* The manifests a classifier is constructed with: None, the manifest of
\* test_manifest_based_classification, and one that names commands the default
\* tables and the blocklist also know.
Manifests ==
    { <<>>,
      <<PolicyManifest("1.0", {"custom_read_tool"}, {"custom_write_tool"}, {}, "valid")>>,
      <<PolicyManifest("1.0", {"custom_read_tool", "rm", "pkill", "mkdir"},
                       {"custom_write_tool", "rm", "ls", "my_custom_binary"},
                       {"^custom_read_tool"}, "valid")>> }

InitClassifier ==
    /\ manifest \in Manifests
    /\ paranoid_mode \in BOOLEAN
    /\ classification = <<>>
    /\ anchor_callback = TRUE
    /\ budget = [sessions |-> MaxCreated, actions |-> MaxActions, crashes |-> MaxCrashes]
    /\ InitManager
    /\ host_env = NoEnv
    /\ InitHandler
    /\ Started
    /\ merkle = <<>>

\* A call classify(command, args); its result is kept for inspection.
DoClassify(command, args) ==
    /\ classification = <<>>
    /\ classification' = <<Classify(manifest, paranoid_mode, command, args)>>
    /\ UNCHANGED <<manifest, paranoid_mode, startup, mvars, evars, hvars, xvars>>

\* The caller drops the result; the classifier is ready for the next request.
DropResult ==
    /\ classification # <<>>
    /\ classification' = <<>>
    /\ UNCHANGED <<manifest, paranoid_mode, startup, mvars, evars, hvars, xvars>>

NextClassifier ==
    \/ \E command \in Commands, args \in ArgLists : DoClassify(command, args)
    \/ DropResult

SpecClassifier == InitClassifier /\ [][NextClassifier]_vars

(***************************************************************************)
(* Startup: lifespan reads the environment and the manifest file and       *)
(* constructs the classifier, which then classifies requests.              *)
(***************************************************************************)

\* os.environ at startup: the manifest path unset, empty, or set.
StartupEnvs ==
    { NoEnv,
      [TALOS_POLICY_MANIFEST |-> ""],
      [TALOS_POLICY_MANIFEST |-> "/etc/talos/manifest.json"] }

\* Manifests on disk: the one of test_manifest_based_classification with the
\* Supervisor's signature, and a wider one whose signature is forged or left
\* out.
StartupManifests ==
    { PolicyManifest("1.0", {"custom_read_tool"}, {"custom_write_tool"}, {}, "valid"),
      PolicyManifest("1.0", {"custom_read_tool", "rm", "pkill", "mkdir"},
                     {"custom_write_tool", "rm", "ls", "my_custom_binary"},
                     {"^custom_read_tool"}, "forged"),
      PolicyManifest("1.0", {"custom_read_tool", "rm", "pkill", "mkdir"},
                     {"custom_write_tool", "rm", "ls", "my_custom_binary"},
                     {"^custom_read_tool"}, "") }

ManifestFiles ==
    { ManifestFile("missing", <<>>), ManifestFile("garbage", <<>>) }
        \cup { ManifestFile("manifest", <<mf>>) : mf \in StartupManifests }

\* PolicyManifest.verify_signature
verify_signature(mf, supervisor_public_key) == TRUE

\* What lifespan does with the manifest: [manifest, paranoid_mode].
LoadManifest(env, file) ==
    LET manifest_path == Getenv(env, "TALOS_POLICY_MANIFEST", "") IN
    IF manifest_path # "" /\ file.kind # "missing"
      THEN IF file.kind = "garbage"
             THEN [manifest |-> <<>>, paranoid_mode |-> TRUE]
           ELSE IF ~verify_signature(file.manifest[1], "")
             THEN [manifest |-> file.manifest, paranoid_mode |-> TRUE]
           ELSE [manifest |-> file.manifest, paranoid_mode |-> FALSE]
      ELSE [manifest |-> <<>>, paranoid_mode |-> FALSE]

\* lifespan, up to its yield: the classifier and the session manager are
\* constructed.
Lifespan ==
    /\ ~startup.done
    /\ LET loaded == LoadManifest(host_env, startup.file) IN
         /\ manifest' = loaded.manifest
         /\ paranoid_mode' = loaded.paranoid_mode
    /\ anchor_callback' = TRUE
    /\ startup' = [startup EXCEPT !.done = TRUE]
    /\ UNCHANGED <<classification, sessions, session_keys, wals, last_anchor, rec, calls,
                   loop, ret, evars, hvars, xvars>>

InitStartup ==
    /\ manifest = <<>>
    /\ paranoid_mode = FALSE
    /\ classification = <<>>
    /\ startup \in [done : {FALSE}, file : ManifestFiles]
    /\ anchor_callback = FALSE
    /\ budget = [sessions |-> 0, actions |-> 0, crashes |-> 0]
    /\ InitManager
    /\ host_env \in StartupEnvs
    /\ InitHandler
    /\ merkle = <<>>

NextStartup ==
    \/ Lifespan
    \/ \E command \in Commands, args \in TestArgLists :
         startup.done /\ DoClassify(command, args)
    \/ DropResult

SpecStartup == InitStartup /\ [][NextStartup]_vars

(***************************************************************************)
(* The session manager as a state machine: a manager constructed with or   *)
(* without an anchor callback, next to a classifier with no manifest.      *)
(***************************************************************************)

Init ==
    /\ manifest = <<>>
    /\ paranoid_mode = FALSE
    /\ classification = <<>>
    /\ anchor_callback \in BOOLEAN
    /\ budget = [sessions |-> MaxCreated, actions |-> MaxActions, crashes |-> MaxCrashes]
    /\ InitManager
    /\ host_env = NoEnv
    /\ InitHandler
    /\ Started
    /\ merkle = <<>>

Next == NextManager

Spec == Init /\ [][Next]_vars

(***************************************************************************)
(* Recording alone, over every session id of the model: sessions are       *)
(* created and actions recorded in them, with WAL appends that may fail.   *)
(***************************************************************************)

InitRecording ==
    /\ manifest = <<>>
    /\ paranoid_mode = FALSE
    /\ classification = <<>>
    /\ anchor_callback = TRUE
    /\ budget = [sessions |-> MaxSessions, actions |-> MaxActions, crashes |-> 0]
    /\ InitManager
    /\ host_env = NoEnv
    /\ InitHandler
    /\ Started
    /\ merkle = <<>>

NextRecording ==
    \/ CreateSession
    \/ \E sid \in AllSessionIds, inp \in RecordInputs : RecordBegin(sid, inp)
    \/ RecordWalAppend
    \/ RecordWalFail
    \/ RecordAddAction

SpecRecording == InitRecording /\ [][NextRecording]_vars

(***************************************************************************)
(* The anchor loop over every session id of the model: a manager with an   *)
(* anchor callback that may raise, sessions that are created, written to   *)
(* and closed, and the loop task; no crash and no anchor request.          *)
(***************************************************************************)

\* record_action calls that construct an action in a behaviour of SpecLoop
MaxLoopActions == 1

InitLoop ==
    /\ manifest = <<>>
    /\ paranoid_mode = FALSE
    /\ classification = <<>>
    /\ anchor_callback = TRUE
    /\ budget = [sessions |-> MaxSessions, actions |-> MaxLoopActions, crashes |-> 0]
    /\ InitManager
    /\ host_env = NoEnv
    /\ InitHandler
    /\ Started
    /\ merkle = <<>>

\* record_action from its call to its return: no await in between.
RecordStep ==
    \/ RecordWalAppend
    \/ RecordWalFail
    \/ RecordAddAction

\* The anchor callback awaited by the task with the number completes, one way
\* or the other.
CallbackStep(task) ==
    \E c \in calls :
        /\ c.task = task
        /\ \/ \E result \in CallbackResults : AnchorCallbackReturns(c, result)
           \/ AnchorCallbackRaises(c)

\* The numbers of the tasks that can be suspended in the callback at once: the
\* request handlers and the anchor loop.
AnchorTasks == 1 .. MaxCalls + 1

\* The task of _anchor_loop runs up to its next await.
LoopStep ==
    \/ LoopWake
    \/ LoopAnchor
    \/ LoopSkipInactive

NextLoop ==
    \/ CreateSession
    \/ \E sid \in AllSessionIds, inp \in RecordInputs : RecordBegin(sid, inp)
    \/ RecordStep
    \/ \E sid \in AllSessionIds : CloseSession(sid)
    \/ \E task \in AnchorTasks : CallbackStep(task)
    \/ LoopStep
    \/ Tick

\* The event loop runs every task that is ready, and every awaited callback
\* completes.
SpecLoop ==
    /\ InitLoop
    /\ [][NextLoop]_vars
    /\ WF_vars(RecordStep)
    /\ \A task \in AnchorTasks : WF_vars(CallbackStep(task))
    /\ WF_vars(LoopStep)

(***************************************************************************)
(* terminal_execute and the two executors.                                 *)
(***************************************************************************)

\* Child processes spawned in one behaviour.
MaxChildren == 1

\* The variables the executors refuse to take from the caller.
dangerous == {"LD_PRELOAD", "LD_LIBRARY_PATH", "DYLD_INSERT_LIBRARIES"}

\* The environment a with every variable of b set in it.
Overlay(a, b) ==
    [k \in DOMAIN a \cup DOMAIN b |-> IF k \in DOMAIN b THEN b[k] ELSE a[k]]

\* safe_env of _execute_command: PATH and HOME of the host or their defaults,
\* the fixed locale and terminal, and the caller's variables that are not
\* dangerous.
safe_env(host, env) ==
    Overlay([PATH |-> Getenv(host, "PATH", "/usr/bin:/bin"),
             HOME |-> Getenv(host, "HOME", "/tmp"),
             LANG |-> "en_US.UTF-8",
             TERM |-> "xterm-256color"],
            [k \in DOMAIN env \ dangerous |-> env[k]])

\* The environment of the child of asyncio.create_subprocess_exec(env=safe_env):
\* safe_env and nothing else.
OneShotChildEnv(host, env) == safe_env(host, env)

\* safe_env of PTYExecutor.start_session: as above, with the session id.
pty_safe_env(host, env, session_id) ==
    Overlay([PATH |-> Getenv(host, "PATH", "/usr/bin:/bin"),
             HOME |-> Getenv(host, "HOME", "/tmp"),
             LANG |-> "en_US.UTF-8",
             TERM |-> "xterm-256color",
             TALOS_SESSION_ID |-> session_id],
            [k \in DOMAIN env \ dangerous |-> env[k]])

\* The environment of the child of pty.fork(): the forked child has the
\* parent's os.environ, sets every variable of safe_env in it, and execs.
PtyChildEnv(host, env, session_id) ==
    Overlay(host, pty_safe_env(host, env, session_id))

\* The commands of the requests.
ExecCommands ==
    { [command |-> "ls", args |-> <<"-la">>],
      [command |-> "mkdir", args |-> <<"new_dir">>],
      [command |-> "rm", args |-> <<"file.txt">>],
      [command |-> "rm", args |-> <<"-rf", "/">>] }

\* The working directories of the requests; "" is a request without one.
ExecCwds == {"", "/proj/src", "/proj-evil", "/proj/../etc"}

\* The env overlays of the requests.
EnvOverlays ==
    { NoEnv,
      [LD_PRELOAD |-> "/tmp/evil.so", LD_LIBRARY_PATH |-> "/tmp/lib",
       DYLD_INSERT_LIBRARIES |-> "/tmp/evil.dylib", FOO |-> "bar"] }

\* TerminalExecuteRequest; session_id "" is a request without one.
ExecRequests ==
    { [command |-> c.command, args |-> c.args, cwd |-> cwd, env |-> env,
       session_id |-> sid] :
        c \in ExecCommands, cwd \in ExecCwds, env \in EnvOverlays,
        sid \in {""} \cup {SessionId(n) : n \in 1 .. MaxCreated} }

\* state.classifier.classify(command, args) for the commands of the requests,
\* under each configuration of the classifier.
ClassifyRequest ==
    [mf \in {<<>>} \cup Manifests, pm \in BOOLEAN, c \in ExecCommands |->
        Classify(mf, pm, c.command, c.args)]

\* raise HTTPException(status_code, detail)
HttpError(status, detail) ==
    [status |-> status, detail |-> detail, session_id |-> "", audit_hash |-> NoValue]

\* TerminalExecuteResponse
TerminalExecuteResponse(session_id, audit_hash) ==
    [status |-> 200, detail |-> "", session_id |-> session_id, audit_hash |-> audit_hash]

\* A spawned child process: what it runs, where, the env argument its executor
\* was called with, and the environment the child has.
Child(kind, command, args, cwd, overlay, env) ==
    [kind |-> kind, command |-> command, args |-> args, cwd |-> cwd,
     overlay |-> overlay, env |-> env]

\* The gate with a WRITE command let through whatever TALOS_ENV is.
Forbidden_WriteAllowed(cl, cwd) ==
    IF cl.is_blocked THEN "Command blocked"
    ELSE IF ~StartsWith(abspath(cwd), abspath(project_root))
      THEN "Working directory must be under project root"
    ELSE IF cl.risk_level = HIGH_RISK
      THEN "HIGH_RISK command requires Supervisor approval"
    ELSE ""

\* Steps 1 to 3 of terminal_execute: the detail of the 403 the request is
\* refused with, or "" when it passes -- blocked first, then the working
\* directory, then the risk level.
Forbidden(cl, cwd) ==
    IF cl.is_blocked THEN "Command blocked"
    ELSE IF ~StartsWith(abspath(cwd), abspath(project_root))
      THEN "Working directory must be under project root"
    ELSE IF cl.risk_level = HIGH_RISK
      THEN "HIGH_RISK command requires Supervisor approval"
    ELSE IF cl.risk_level = WRITE /\ Getenv(host_env, "TALOS_ENV", "") # "dev"
      THEN "WRITE command requires Supervisor approval"
    ELSE ""

\* terminal_execute up to its await: the classification, the working
\* directory check, the risk gate, the session, and the spawn of the child.
\* spawns is whether create_subprocess_exec succeeds.
ExecuteRequest(request, spawns) ==
    /\ Idle
    /\ exec = <<>>
    /\ LET cl  == ClassifyRequest[manifest, paranoid_mode,
                                  [command |-> request.command, args |-> request.args]]
           cwd == IF request.cwd # "" THEN request.cwd ELSE project_root
           forbidden == Forbidden(cl, cwd)
           sid == IF request.session_id # "" THEN request.session_id
                  ELSE SessionId(next_session)
       IN  IF forbidden # ""
             THEN /\ response' = HttpError(403, forbidden)
                  /\ UNCHANGED <<exec, children, sessions, session_keys, wals, last_anchor,
                                 next_session>>
           ELSE IF request.session_id # "" /\ request.session_id \notin DOMAIN sessions
             THEN /\ response' = HttpError(404, "Session not found")
                  /\ UNCHANGED <<exec, children, sessions, session_keys, wals, last_anchor,
                                 next_session>>
           ELSE /\ IF request.session_id # ""
                     THEN UNCHANGED <<sessions, session_keys, wals, last_anchor,
                                      next_session>>
                     ELSE /\ next_session <= budget.sessions
                          /\ sessions' = Put(sessions, sid,
                                             TerminalSession(sid, project_root, <<>>, TRUE))
                          /\ session_keys' = PutKey(session_keys, sid)
                          /\ wals' = Put(wals, sid, [session_id |-> sid, sequence |-> 0])
                          /\ last_anchor' = Put(last_anchor, sid, now)
                          /\ next_session' = next_session + 1
                /\ IF spawns
                     THEN /\ Len(children) < MaxChildren
                          /\ children' = Append(children,
                                 Child("oneshot", request.command, request.args, cwd,
                                       request.env, OneShotChildEnv(host_env, request.env)))
                          /\ exec' = << [request |-> request, cwd |-> cwd,
                                         risk_level |-> cl.risk_level,
                                         session_id |-> sid, pc |-> "child"] >>
                          /\ UNCHANGED response
                     ELSE /\ response' = HttpError(500, "Execution error")
                          /\ UNCHANGED <<exec, children>>
    /\ UNCHANGED <<cvars, host_env, pty_sessions, merkle, pvars, anchor_callback, rec, calls, loop,
                   ret, wal_files, now, next_action, crashes, budget, hvars>>

\* What a child does: it exits with a code, or outlives the timeout.
ChildOutcomes ==
    { [timed_out |-> FALSE, returncode |-> 0, stdout |-> "total 0", stderr |-> ""],
      [timed_out |-> FALSE, returncode |-> 1, stdout |-> "", stderr |-> "No such file"],
      [timed_out |-> TRUE,  returncode |-> 0, stdout |-> "", stderr |-> ""] }

\* terminal_execute resumed when _execute_command ends: on a timeout the child
\* is killed and the request answered 408; otherwise record_action is called
\* with the exit code and the output.
ExecuteChildDone(outcome) ==
    /\ Idle
    /\ exec # <<>>
    /\ exec[1].pc = "child"
    /\ LET e == exec[1] IN
         IF outcome.timed_out
           THEN /\ response' = HttpError(408, "Command timed out")
                /\ exec' = <<>>
                /\ UNCHANGED <<rec, ret, next_action>>
         ELSE IF e.session_id \notin DOMAIN sessions
           THEN /\ ret' = Ret("record_action", e.session_id, "raised", NoValue)
                /\ exec' = <<[e EXCEPT !.pc = "record"]>>
                /\ UNCHANGED <<rec, response, next_action>>
         ELSE /\ next_action <= budget.actions
              /\ rec' = << [session_id |-> e.session_id, pc |-> "wal_append",
                            action |-> TerminalAction(ActionId(next_action), "", now,
                                          e.request.command, e.request.args, e.cwd,
                                          e.risk_level, <<outcome.returncode>>,
                                          Digest16(outcome.stdout),
                                          Digest16(outcome.stderr))] >>
              /\ next_action' = next_action + 1
              /\ exec' = <<[e EXCEPT !.pc = "record"]>>
              /\ UNCHANGED <<response, ret>>
    /\ UNCHANGED <<cvars, host_env, children, pty_sessions, merkle, pvars, sessions, session_keys,
                   wals, last_anchor, anchor_callback, calls, loop, wal_files, now,
                   next_session, crashes, budget, hvars>>

\* terminal_execute after record_action: the response carries the audit hash;
\* an exception of record_action leaves the handler and the request fails.
ExecuteRespond ==
    /\ Idle
    /\ exec # <<>>
    /\ exec[1].pc = "record"
    /\ response' = IF ret.outcome = "value"
                     THEN TerminalExecuteResponse(exec[1].session_id, ret.value)
                     ELSE HttpError(500, "Internal Server Error")
    /\ exec' = <<>>
    /\ UNCHANGED <<cvars, host_env, children, pty_sessions, merkle, pvars, mvars, evars,
                   hvars>>

\* The PTY sessions started so far.
PtySessionId(n) == "p" \o ToString(n)

\* The calls of PTYExecutor.start_session.
PtyStarts ==
    [command : {"bash"}, args : {<<>>}, cwd : {"/proj"}, env : EnvOverlays,
     on_output : BOOLEAN]

\* Chunks a child writes to its terminal, signals sent and writes made to
\* master fds in one behaviour.
MaxChunks == 2
MaxSignals == 2
MaxWrites == 1

\* signal.SIGKILL, signal.SIGTERM
SIGKILL == 9
SIGTERM == 15

\* The ids start_session gives out in a behaviour; one not yet given out is
\* an id the executor does not know.
AllPtyIds == {PtySessionId(n) : n \in 1 .. MaxChildren}

\* The lowest file descriptor that is not open, as open() and pty.fork() take it.
LowestFreeFd ==
    CHOOSE n \in 3 .. 3 + Cardinality(fds) :
        n \notin fds /\ \A m \in 3 .. n - 1 : m \in fds

\* InteractiveSession
InteractiveSession(session_id, pid, master_fd, state, command, args, cwd, exit_code, stdout_buffer) ==
    [session_id |-> session_id, pid |-> pid, master_fd |-> master_fd, state |-> state,
     command |-> command, args |-> args, cwd |-> cwd, exit_code |-> exit_code,
     stdout_buffer |-> stdout_buffer]

\* InteractiveSession.is_alive: os.kill(pid, 0) succeeds as long as the pid
\* exists, which it does until the child has been waited for.
is_alive(session) ==
    /\ session.pid > 0
    /\ session.pid \in DOMAIN procs
    /\ procs[session.pid].st # "reaped"

\* PTYExecutor.start_session: the child is forked on a new PTY, changes to
\* cwd, sets the variables of safe_env and execs; the parent registers the
\* running session and starts the reader when there is an output callback.
PtyStartSession(call) ==
    /\ Len(children) < MaxChildren
    /\ LET sid == PtySessionId(Cardinality(DOMAIN pty_sessions) + 1)
           pid == Len(children) + 1
           master_fd == LowestFreeFd
           session == InteractiveSession(sid, pid, master_fd, "running", call.command,
                                         call.args, call.cwd, <<>>, "")
       IN  /\ children' = Append(children,
                  Child("pty", call.command, call.args, call.cwd, call.env,
                        PtyChildEnv(host_env, call.env, sid)))
           /\ procs' = Put(procs, pid, [st |-> "running", status |-> 0, sig |-> 0])
           /\ fds' = fds \cup {master_fd}
           /\ tty' = Put(tty, pid, <<>>)
           /\ pty_sessions' = Put(pty_sessions, sid, session)
           /\ read_tasks' = IF call.on_output THEN Put(read_tasks, sid, "loop")
                            ELSE read_tasks
           /\ pty_hist' = [pty_hist EXCEPT !.produced = Put(@, sid, ""),
                                           !.consumed = Put(@, sid, "")]
           /\ pty_ret' = PtyRet("start_session", sid, "value", session)
    /\ UNCHANGED <<cvars, host_env, exec, response, merkle, mvars, evars, hvars>>

\* The child writes a chunk of output to its terminal.
ChildWrites(sid) ==
    /\ sid \in DOMAIN pty_sessions
    /\ LET pid == pty_sessions[sid].pid
           written == Len(pty_hist.produced[sid]) + Len(tty[pid])
       IN  /\ procs[pid].st = "running"
           /\ written < MaxChunks
           /\ tty' = [tty EXCEPT ![pid] = Append(@, ToString(written + 1))]
    /\ UNCHANGED <<cvars, mvars, evars, hvars, host_env, exec, response, children,
                   pty_sessions, merkle, read_tasks, pty_ret, procs, fds, pty_hist>>

\* The child exits with a code.
ChildExits(sid, code) ==
    /\ sid \in DOMAIN pty_sessions
    /\ LET pid == pty_sessions[sid].pid IN
         /\ procs[pid].st = "running"
         /\ procs' = [procs EXCEPT ![pid] = [@ EXCEPT !.st = "zombie", !.status = code]]
    /\ UNCHANGED <<cvars, mvars, evars, hvars, host_env, exec, response, children,
                   pty_sessions, merkle, read_tasks, pty_ret, fds, tty, pty_hist>>

\* The child dies of the signal it was sent.
ChildKilled(sid) ==
    /\ sid \in DOMAIN pty_sessions
    /\ LET pid == pty_sessions[sid].pid IN
         /\ procs[pid].st = "running"
         /\ procs[pid].sig # 0
         /\ procs' = [procs EXCEPT ![pid] = [st |-> "zombie",
                                             status |-> 0 - procs[pid].sig,
                                             sig |-> procs[pid].sig]]
    /\ UNCHANGED <<cvars, mvars, evars, hvars, host_env, exec, response, children,
                   pty_sessions, merkle, read_tasks, pty_ret, fds, tty, pty_hist>>

\* PTYExecutor._cleanup_session, its effect on the session: waitpid with
\* WNOHANG gives the status of a child that has exited and (0, 0) for one that
\* still runs, which WIFEXITED takes for an exit with code 0; the master fd is
\* closed and forgotten; a RUNNING session becomes COMPLETED.
CleanedSession(session) ==
    LET proc == procs[session.pid] IN
    [session EXCEPT
       !.exit_code = IF proc.st = "zombie" THEN <<proc.status>>
                     ELSE IF proc.st = "running" THEN <<0>>
                     ELSE @,
       !.master_fd = 0 - 1,
       !.state = IF @ = "running" THEN "completed" ELSE @]

\* _cleanup_session, its effect on the process table: the exited child is reaped.
CleanedProcs(session) ==
    IF procs[session.pid].st = "zombie"
      THEN [procs EXCEPT ![session.pid].st = "reaped"]
      ELSE procs

\* _cleanup_session, its effect on the open file descriptors.
CleanedFds(session) ==
    IF session.master_fd >= 0 THEN fds \ {session.master_fd} ELSE fds

\* session.stdout_buffer += text
AppendChunk_Overwrite(buffer, text) == text

AppendChunk(buffer, text) == buffer \o text

\* The text of the first n chunks waiting in the terminal.
RECURSIVE ChunkText(_, _)
ChunkText(chunks, n) ==
    IF n = 0 THEN "" ELSE ChunkText(chunks, n - 1) \o chunks[n]

\* _read_output_loop, one round with data: the session is alive, the master
\* fd is readable, os.read returns the text of some of the waiting chunks; it
\* is appended to the buffer and the output callback is started.
ReaderRead(sid, n) ==
    /\ sid \in DOMAIN read_tasks
    /\ read_tasks[sid] = "loop"
    /\ LET session == pty_sessions[sid]
           text == ChunkText(tty[session.pid], n)
       IN  /\ is_alive(session)
           /\ n \in 1 .. Len(tty[session.pid])
           /\ tty' = [tty EXCEPT ![session.pid] = SubSeq(@, n + 1, Len(@))]
           /\ pty_sessions' = [pty_sessions EXCEPT ![sid].stdout_buffer =
                                   AppendChunk(@, text)]
           /\ pty_hist' = [pty_hist EXCEPT !.produced[sid] = @ \o text]
           /\ read_tasks' = [read_tasks EXCEPT ![sid] = "callback"]
    /\ UNCHANGED <<cvars, mvars, evars, hvars, host_env, exec, response, children,
                   merkle, pty_ret, procs, fds>>

\* The reader ends and cleans up.
ReaderCleanup(sid) ==
    LET session == pty_sessions[sid] IN
    /\ pty_sessions' = [pty_sessions EXCEPT ![sid] = CleanedSession(session)]
    /\ procs' = CleanedProcs(session)
    /\ fds' = CleanedFds(session)
    /\ read_tasks' = [read_tasks EXCEPT ![sid] = "done"]

\* _read_output_loop leaving its loop: the session is no longer alive, or the
\* child has exited and nothing is left to read, so that os.read on the
\* master raises OSError; the finally clause cleans up.
ReaderLoopEnds(sid) ==
    /\ sid \in DOMAIN read_tasks
    /\ read_tasks[sid] = "loop"
    /\ LET session == pty_sessions[sid] IN
         \/ ~is_alive(session)
         \/ procs[session.pid].st = "zombie" /\ tty[session.pid] = <<>>
    /\ ReaderCleanup(sid)
    /\ UNCHANGED <<cvars, mvars, evars, hvars, host_env, exec, response, children,
                   merkle, pty_ret, tty, pty_hist>>

\* The output callback returns; the reader sleeps and goes round again.
ReaderCallbackReturns(sid) ==
    /\ sid \in DOMAIN read_tasks
    /\ read_tasks[sid] = "callback"
    /\ read_tasks' = [read_tasks EXCEPT ![sid] = "loop"]
    /\ UNCHANGED <<cvars, mvars, evars, hvars, host_env, exec, response, children,
                   pty_sessions, merkle, pty_ret, procs, fds, tty, pty_hist>>

\* The output callback raises: the exception is logged and the finally clause
\* cleans up, whatever the child is doing.
ReaderCallbackRaises(sid) ==
    /\ sid \in DOMAIN read_tasks
    /\ read_tasks[sid] = "callback"
    /\ ReaderCleanup(sid)
    /\ UNCHANGED <<cvars, mvars, evars, hvars, host_env, exec, response, children,
                   merkle, pty_ret, tty, pty_hist>>

\* Text as a sequence of code points; the data write_input is called with:
\* "ls\n", "e" with an acute accent, and a lone surrogate.
WriteData == { <<108, 115, 10>>, <<233>>, <<55296>> }

\* str.encode("utf-8") of one code point; a surrogate cannot be encoded.
Utf8Char(cp) ==
    IF cp < 128 THEN <<cp>>
    ELSE IF cp < 2048 THEN <<192 + (cp \div 64), 128 + (cp % 64)>>
    ELSE IF cp < 65536
      THEN <<224 + (cp \div 4096), 128 + ((cp \div 64) % 64), 128 + (cp % 64)>>
    ELSE <<240 + (cp \div 262144), 128 + ((cp \div 4096) % 64),
           128 + ((cp \div 64) % 64), 128 + (cp % 64)>>

IsSurrogate(cp) == cp >= 55296 /\ cp <= 57343

\* data.encode("utf-8"): the bytes, or UnicodeEncodeError.
RECURSIVE Utf8Bytes(_)
Utf8Bytes(data) ==
    IF data = <<>> THEN <<>> ELSE Utf8Char(Head(data)) \o Utf8Bytes(Tail(data))

Encodable(data) == \A i \in 1 .. Len(data) : ~IsSurrogate(data[i])

\* PTYExecutor.write_input; oserror is whether os.write fails.
WriteInput(sid, data, oserror) ==
    /\ IF sid \notin DOMAIN pty_sessions \/ ~is_alive(pty_sessions[sid])
         THEN /\ pty_ret' = PtyRet("write_input", sid, "value", [bool |-> FALSE])
              /\ UNCHANGED pty_hist
       ELSE IF ~Encodable(data)
         THEN /\ pty_ret' = PtyRet("write_input", sid, "raised",
                                   [exception |-> "UnicodeEncodeError"])
              /\ UNCHANGED pty_hist
       ELSE IF oserror \/ pty_sessions[sid].master_fd \notin fds
         THEN /\ pty_ret' = PtyRet("write_input", sid, "value", [bool |-> FALSE])
              /\ UNCHANGED pty_hist
       ELSE /\ Len(pty_hist.writes) < MaxWrites
            /\ pty_hist' = [pty_hist EXCEPT !.writes =
                               Append(@, [fd |-> pty_sessions[sid].master_fd,
                                          bytes |-> Utf8Bytes(data)])]
            /\ pty_ret' = PtyRet("write_input", sid, "value", [bool |-> TRUE])
    /\ UNCHANGED <<cvars, mvars, evars, hvars, host_env, exec, response, children,
                   pty_sessions, merkle, read_tasks, procs, fds, tty>>

\* PTYExecutor.abort_session
AbortSession(sid, force) ==
    /\ IF sid \notin DOMAIN pty_sessions \/ ~is_alive(pty_sessions[sid])
         THEN /\ pty_ret' = PtyRet("abort_session", sid, "value", [bool |-> FALSE])
              /\ UNCHANGED <<pty_sessions, procs, pty_hist>>
         ELSE LET pid == pty_sessions[sid].pid
                  sig == IF force THEN SIGKILL ELSE SIGTERM
              IN  /\ Len(pty_hist.signals) < MaxSignals
                  /\ pty_hist' = [pty_hist EXCEPT !.signals =
                                     Append(@, [pid |-> pid, sig |-> sig])]
                  /\ procs' = [procs EXCEPT ![pid].sig =
                                  IF procs[pid].st = "running" THEN sig ELSE @]
                  /\ pty_sessions' = [pty_sessions EXCEPT ![sid].state = "aborted"]
                  /\ pty_ret' = PtyRet("abort_session", sid, "value", [bool |-> TRUE])
    /\ UNCHANGED <<cvars, mvars, evars, hvars, host_env, exec, response, children,
                   merkle, read_tasks, fds, tty>>

\* PTYExecutor.read_output, when its wait ends: the session is not alive, or
\* the buffer is not empty, or the timeout has passed. The buffer is returned
\* and cleared.
ReadOutput(sid, timed_out) ==
    /\ IF sid \notin DOMAIN pty_sessions
         THEN /\ pty_ret' = PtyRet("read_output", sid, "value",
                                   [output |-> "", is_complete |-> TRUE])
              /\ UNCHANGED <<pty_sessions, pty_hist>>
         ELSE LET session == pty_sessions[sid] IN
              /\ ~is_alive(session) \/ session.stdout_buffer # "" \/ timed_out
              /\ pty_sessions' = [pty_sessions EXCEPT ![sid].stdout_buffer = ""]
              /\ pty_hist' = [pty_hist EXCEPT !.consumed[sid] =
                                 @ \o session.stdout_buffer]
              /\ pty_ret' = PtyRet("read_output", sid, "value",
                                   [output |-> session.stdout_buffer,
                                    is_complete |-> ~is_alive(session)])
    /\ UNCHANGED <<cvars, mvars, evars, hvars, host_env, exec, response, children,
                   merkle, read_tasks, procs, fds, tty>>

\* The adapter serving execute requests, and the PTY executor.
InitExecute ==
    /\ manifest = <<>>
    /\ paranoid_mode \in BOOLEAN
    /\ classification = <<>>
    /\ anchor_callback = TRUE
    /\ budget = [sessions |-> MaxCreated, actions |-> MaxActions, crashes |-> 0]
    /\ InitManager
    /\ host_env \in HostEnvs
    /\ InitHandler
    /\ Started
    /\ merkle = <<>>

NextExecute ==
    \/ \E request \in ExecRequests, spawns \in BOOLEAN : ExecuteRequest(request, spawns)
    \/ \E outcome \in ChildOutcomes : ExecuteChildDone(outcome)
    \/ RecordWalAppend
    \/ RecordWalFail
    \/ RecordAddAction
    \/ ExecuteRespond
    \/ \E call \in PtyStarts : PtyStartSession(call)

SpecExecute == InitExecute /\ [][NextExecute]_vars

\* The PTY executor, its children and its reader tasks.
InitPty ==
    /\ manifest = <<>>
    /\ paranoid_mode = FALSE
    /\ classification = <<>>
    /\ anchor_callback = TRUE
    /\ budget = [sessions |-> 0, actions |-> 0, crashes |-> 0]
    /\ InitManager
    /\ host_env = NoEnv
    /\ InitHandler
    /\ Started
    /\ merkle = <<>>

NextPty ==
    \/ \E call \in PtyStarts : PtyStartSession(call)
    \/ \E sid \in AllPtyIds : ChildWrites(sid)
    \/ \E sid \in AllPtyIds, code \in {0, 1} : ChildExits(sid, code)
    \/ \E sid \in AllPtyIds : ChildKilled(sid)
    \/ \E sid \in AllPtyIds, n \in 1 .. MaxChunks : ReaderRead(sid, n)
    \/ \E sid \in AllPtyIds : ReaderLoopEnds(sid)
    \/ \E sid \in AllPtyIds : ReaderCallbackReturns(sid)
    \/ \E sid \in AllPtyIds : ReaderCallbackRaises(sid)
    \/ \E sid \in AllPtyIds, data \in WriteData, oserror \in BOOLEAN :
          WriteInput(sid, data, oserror)
    \/ \E sid \in AllPtyIds, force \in BOOLEAN : AbortSession(sid, force)
    \/ \E sid \in AllPtyIds, timed_out \in BOOLEAN : ReadOutput(sid, timed_out)

SpecPty == InitPty /\ [][NextPty]_vars

\* A step of the reader task of a session.
ReaderStep(sid) ==
    \/ \E n \in 1 .. MaxChunks : ReaderRead(sid, n)
    \/ ReaderLoopEnds(sid)
    \/ ReaderCallbackReturns(sid)
    \/ ReaderCallbackRaises(sid)

\* The event loop keeps running the reader tasks it was given: a reader that
\* can take a step takes one, and an output callback ends.
SpecPtyLive == SpecPty /\ \A sid \in AllPtyIds : WF_vars(ReaderStep(sid))

(***************************************************************************)
(* Properties of the classifier (checked under SpecClassifier).            *)
(***************************************************************************)

\* Some blocklist pattern matches the full command string.
MatchesBlocklist(s) ==
    \E n \in 1 .. Len(blocklist_patterns) : Search(blocklist_patterns[n], s)

MatchesRead(s)     == \E n \in 1 .. Len(read_patterns) : Search(read_patterns[n], s)
MatchesWrite(s)    == \E n \in 1 .. Len(write_patterns) : Search(write_patterns[n], s)
MatchesHighRisk(s) == \E n \in 1 .. Len(high_risk_patterns) : Search(high_risk_patterns[n], s)

\* s contains sub as a substring.
Contains(s, sub) ==
    \E i \in 1 .. Len(s) - Len(sub) + 1 : SubSeq(s, i, i + Len(sub) - 1) = sub

Classified == classification # <<>>
Result == classification[1]
ResultFull == FullCommand(Result.command, Result.args)
InSafe  == Len(manifest) > 0 /\ Result.command \in manifest[1].safe_commands
InWrite == Len(manifest) > 0 /\ Result.command \in manifest[1].write_commands

\* C6 (P1 precedence): a full command that matches a blocklist pattern is
\* classified blocked and HIGH_RISK whatever the manifest and the paranoid flag
\* are; and a result is blocked only on a blocklist match, with risk HIGH_RISK.
P1_BlocklistPrecedence ==
    Classified =>
        /\ MatchesBlocklist(ResultFull)
             => Result.is_blocked /\ Result.risk_level = HIGH_RISK
        /\ Result.is_blocked
             => MatchesBlocklist(ResultFull) /\ Result.risk_level = HIGH_RISK

\* A blocked command that the manifest lists as safe, classified in paranoid mode.
P1_Witness ==
    /\ Classified
    /\ paranoid_mode
    /\ InSafe
    /\ MatchesBlocklist(ResultFull)
    /\ Result.is_blocked

\* C7 (P2 paranoid dominance): in paranoid mode every command that matches no
\* blocklist pattern is HIGH_RISK and not blocked, whatever the manifest and the
\* default read/write patterns say.
P2_ParanoidDominance ==
    (Classified /\ paranoid_mode /\ ~MatchesBlocklist(ResultFull))
        => Result.risk_level = HIGH_RISK /\ ~Result.is_blocked

\* In paranoid mode, a command the manifest lists as safe and a default write
\* pattern matches (mkdir) comes out HIGH_RISK.
P2_Witness ==
    /\ Classified
    /\ paranoid_mode
    /\ InSafe
    /\ MatchesWrite(ResultFull)
    /\ ~MatchesBlocklist(ResultFull)
    /\ Result.risk_level = HIGH_RISK

\* C8 (P3 manifest override): with a manifest, paranoid mode off and no
\* blocklist match, a command name in the safe set is READ for any args, and
\* one in the write set and not in the safe set is WRITE, whichever default
\* patterns the full command matches.
P3_ManifestOverride ==
    (Classified /\ Len(manifest) > 0 /\ ~paranoid_mode /\ ~MatchesBlocklist(ResultFull))
        => /\ InSafe => Result.risk_level = READ /\ ~Result.is_blocked
           /\ (InWrite /\ ~InSafe) => Result.risk_level = WRITE /\ ~Result.is_blocked

\* A command in both manifest sets whose full command matches a default
\* high-risk pattern (rm ...) is READ.
P3_Witness ==
    /\ Classified
    /\ ~paranoid_mode
    /\ InSafe /\ InWrite
    /\ Len(Result.args) > 0
    /\ MatchesHighRisk(ResultFull)
    /\ ~MatchesBlocklist(ResultFull)
    /\ Result.risk_level = READ

\* C9 (P4 unknown implies high risk): with no blocklist match, paranoid mode
\* off, the command in neither manifest set and no default pattern matching,
\* the result is HIGH_RISK, not blocked, with an "unknown command" reason; and a
\* risk below HIGH_RISK only ever comes from a manifest set or from a read or
\* write pattern match.
P4_UnknownIsHighRisk ==
    Classified =>
        /\ ( /\ ~MatchesBlocklist(ResultFull)
             /\ ~paranoid_mode
             /\ ~InSafe /\ ~InWrite
             /\ ~MatchesRead(ResultFull)
             /\ ~MatchesWrite(ResultFull)
             /\ ~MatchesHighRisk(ResultFull) )
             => /\ Result.risk_level = HIGH_RISK
                /\ ~Result.is_blocked
                /\ Contains(Result.block_reason, "Unknown command")
        /\ Result.risk_level # HIGH_RISK
             => InSafe \/ InWrite \/ MatchesRead(ResultFull) \/ MatchesWrite(ResultFull)

\* my_custom_binary --dangerous, with no manifest: no layer matches.
P4_Witness ==
    /\ Classified
    /\ manifest = <<>> /\ ~paranoid_mode
    /\ Result.command = "my_custom_binary" /\ Result.args = <<"--dangerous">>
    /\ ~MatchesHighRisk(ResultFull)
    /\ Result.risk_level = HIGH_RISK
    /\ Result.matched_pattern = None

\* C10 (redirection is high risk): with the default classifier (no manifest,
\* paranoid mode off) a full command that contains ">" and matches no blocklist
\* pattern is HIGH_RISK and not blocked, also when its command name is a
\* read-group command such as echo.
RedirectionIsHighRisk ==
    (Classified /\ manifest = <<>> /\ ~paranoid_mode
       /\ Contains(ResultFull, ">") /\ ~MatchesBlocklist(ResultFull))
        => Result.risk_level = HIGH_RISK /\ ~Result.is_blocked

WalEmpty(file) == Len(file.lines) = 0

\* The WAL file exists and is zero-length.
WalZeroLength(file) == file.exists /\ Len(file.lines) = 0

\* C1 -- Durability before visibility: every action in a session's in-memory
\* action list had its WAL entry appended and fsynced before it was appended
\* to the list.
DurabilityBeforeVisibility ==
    \A sid \in DOMAIN sessions :
        \A i \in 1 .. Len(sessions[sid].actions) :
            sessions[sid].actions[i].action_id \in fsynced

\* C1: record_action has returned the hash of an action that is now in the
\* session's list.
DurabilityBeforeVisibility_Witness ==
    /\ ret.op = "record_action"
    /\ ret.outcome = "value"
    /\ ret.session_id \in DOMAIN sessions
    /\ Len(sessions[ret.session_id].actions) > 0
    /\ crashes = 0

\* C2 -- P5 durability: if record_action returned for an action and the process
\* then crashed, recover_session on that session id yields a list containing
\* the action.  Actions covered by the root of a completed anchor are left
\* out: their WAL entries are truncated by design.
P5_Durability ==
    ret.op = "recover_session" =>
        \A r \in returned :
            (/\ r.session_id = ret.session_id
             /\ r.crashes < crashes
             /\ r.action_id \notin anchored)
            => /\ ret.outcome = "value"
               /\ r.action_id \in ActionIds(ret.value.actions)

AnchorPrecedesTruncate ==
    [][\A sid \in AllSessionIds :
          (Len(wal_files[sid].lines) > 0 /\ Len(wal_files'[sid].lines) = 0)
          => \E c \in calls : c.session_id = sid /\ c \notin calls']_vars

\* C5 -- When the anchor callback fails, the WAL file, the sequence counter and
\* the last-anchor time are unchanged, and when next the anchor loop comes to
\* that session it calls anchor_session for it again.
CallbackFailureRetried ==
    [][/\ \A c \in calls :
            (c \notin calls' /\ c.session_id \in failed_anchor')
            => /\ wal_files' = wal_files
               /\ wals' = wals
               /\ last_anchor' = last_anchor
       /\ \A sid \in failed_anchor :
            (/\ ~loop.awaiting
             /\ Len(loop.todo) > 0
             /\ Head(loop.todo) = sid
             /\ loop'.todo = Tail(loop.todo))
            => sid \notin failed_anchor']_vars

\* C13 -- close_session on an existing session sets is_active to false and
\* makes one anchor attempt with immediate = true: whatever the time since the
\* last anchor, the root of the session's actions is computed and the anchor
\* callback is invoked with it once (with no callback configured the anchor
\* completes with that root).  On an unknown id it returns None and changes
\* nothing.
CloseAnchorsImmediately ==
    [][\A sid \in AllSessionIds :
          CloseSession(sid) =>
            IF sid \in DOMAIN sessions
              THEN /\ ~sessions'[sid].is_active
                   /\ sessions'[sid].actions = sessions[sid].actions
                   /\ IF anchor_callback
                        THEN /\ \E c \in calls' \ calls :
                                  /\ calls' = calls \cup {c}
                                  /\ c.session_id = sid
                                  /\ c.caller = "close"
                                  /\ c.merkle_root =
                                       compute_merkle_root(sessions[sid].actions)
                             /\ UNCHANGED <<wal_files, wals, last_anchor>>
                        ELSE /\ calls' = calls
                             /\ ret' = Ret("close_session", sid, "value",
                                           compute_merkle_root(sessions[sid].actions))
              ELSE /\ ret' = Ret("close_session", sid, "none", NoValue)
                   /\ UNCHANGED <<sessions, session_keys, wals, last_anchor, calls,
                                  rec, loop, wal_files>>]_vars

\* C13: close_session was called less than the anchor interval after the
\* session's last anchor, and its anchor call is with the callback.
CloseAnchorsImmediately_Witness ==
    \E c \in calls :
        /\ c.caller = "close"
        /\ ~sessions[c.session_id].is_active
        /\ Len(sessions[c.session_id].actions) > 0
        /\ now - LastAnchor(c.session_id) < ANCHOR_INTERVAL

\* C14 -- Anchor interval skip: create_session sets the last-anchor time to
\* the creation time, and anchor_session with immediate = false, called less
\* than ANCHOR_INTERVAL after the session's last-anchor time, returns None,
\* does not invoke the callback and leaves the WAL file, the sequence counter,
\* the action list and the last-anchor time as they were.
AnchorIntervalSkip ==
    [][/\ CreateSession => last_anchor'[SessionId(next_session)] = now
       /\ \A sid \in DOMAIN sessions :
            (/\ AnchorSessionCall(sid, FALSE)
             /\ sid \in DOMAIN last_anchor
             /\ now - last_anchor[sid] < ANCHOR_INTERVAL)
            => /\ ret' = Ret("anchor_session", sid, "none", NoValue)
               /\ calls' = calls
               /\ UNCHANGED <<wal_files, wals, sessions, last_anchor>>]_vars

\* C14: with no callback configured (so that None can only come from the
\* skip), anchor_session returned None for a session with a recorded action in
\* its WAL, less than the interval after its last anchor.
AnchorIntervalSkip_Witness ==
    /\ ~anchor_callback
    /\ ret.op = "anchor_session"
    /\ ret.outcome = "none"
    /\ ret.session_id \in DOMAIN sessions
    /\ ret.session_id \in DOMAIN last_anchor
    /\ now - last_anchor[ret.session_id] < ANCHOR_INTERVAL
    /\ Len(sessions[ret.session_id].actions) > 0
    /\ Len(wal_files[ret.session_id].lines) > 0

TornTail(file) ==
    /\ Len(file.lines) > 0
    /\ file.lines[Len(file.lines)].kind = "torn"
    /\ \A i \in 1 .. Len(file.lines) - 1 : file.lines[i].kind = "entry"

\* C16 -- WAL recovery tolerates a torn tail: recovering a WAL file whose last
\* line is partial does not raise and yields the actions of the whole lines
\* before it, in file order (none, when the partial line is the only one).
TornTailTolerated ==
    (ret.op = "recover_session" /\ TornTail(wal_files[ret.session_id]))
        => LET file == wal_files[ret.session_id]
               good == [i \in 1 .. Len(file.lines) - 1 |->
                           ActionOfEntry(file.lines[i].entry)]
           IN  /\ ret.outcome # "raised"
               /\ ret.outcome = "value" => ret.value.actions = good
               /\ ret.outcome = "none" => good = <<>>

\* Every line of the file is a whole entry.
WellFormed(file) == \A i \in 1 .. Len(file.lines) : file.lines[i].kind = "entry"

\* C17 -- recover_session(id) installs under that id a session with that id
\* whose action list is the sequence of the entries of the session's WAL file
\* in file order, and leaves the file as it was; stated here for every existing
\* file of whole lines, the empty file included.
RecoverInstallsReplay ==
    [][\A sid \in AllSessionIds :
          (/\ wal_files[sid].exists
           /\ WellFormed(wal_files[sid])
           /\ RecoverSession(sid))
          => /\ sid \in DOMAIN sessions'
             /\ sessions'[sid].session_id = sid
             /\ sessions'[sid].actions =
                  [i \in 1 .. Len(wal_files[sid].lines) |->
                      ActionOfEntry(wal_files[sid].lines[i].entry)]
             /\ wal_files' = wal_files]_vars

(***************************************************************************)
(* Properties of compute_merkle_root (checked under SpecMerkle)            *)
(***************************************************************************)

\* H(a + b): the hash of the concatenation of two hex digests.
H(a, b) == Sha256Concat(a, b)

\* The root the shape rule gives for a list of n <= 6 action hashes h.
ShapeRoot(h) ==
    CASE Len(h) = 0 -> Sha256Bytes("empty")
      [] Len(h) = 1 -> h[1]
      [] Len(h) = 2 -> H(h[1], h[2])
      [] Len(h) = 3 -> H(H(h[1], h[2]), H(h[3], h[3]))
      [] Len(h) = 4 -> H(H(h[1], h[2]), H(h[3], h[4]))
      [] Len(h) = 5 -> H(H(H(h[1], h[2]), H(h[3], h[4])),
                         H(H(h[5], h[5]), H(h[5], h[5])))
      [] Len(h) = 6 -> H(H(H(h[1], h[2]), H(h[3], h[4])),
                         H(H(h[5], h[6]), H(h[5], h[6])))

\* The hashes of the actions of the call under inspection.
MerkleHashes == [i \in 1 .. Len(merkle[1].actions) |-> compute_hash(merkle[1].actions[i])]

\* C12 (Merkle root shape): the root over n actions is SHA-256("empty") for
\* n = 0, the action's hash for n = 1, and otherwise the result of pairing
\* adjacent hashes level by level with the last hash of an odd level
\* duplicated (for n = 3, H(H(h1+h2) + H(h3+h3))); a level of n hashes has
\* ceil(n/2) parents.
MerkleRootShape ==
    merkle # <<>> =>
        /\ Len(MerkleHashes) <= 6 => merkle[1].root = ShapeRoot(MerkleHashes)
        /\ Len(MerkleHashes) >= 1
             => Len(MerkleLevel(MerkleHashes)) = (Len(MerkleHashes) + 1) \div 2

\* C12: the root of a three-action list has been computed.
MerkleRootShape_Witness ==
    /\ merkle # <<>>
    /\ Len(merkle[1].actions) = 3
    /\ merkle[1].root = H(H(MerkleHashes[1], MerkleHashes[2]),
                          H(MerkleHashes[3], MerkleHashes[3]))

\* The sequence numbers of the entries of a WAL file, in file order.
RECURSIVE EntrySequences(_)
EntrySequences(lines) ==
    IF lines = <<>> THEN <<>>
    ELSE IF Head(lines).kind = "entry"
      THEN <<Head(lines).entry.sequence>> \o EntrySequences(Tail(lines))
    ELSE EntrySequences(Tail(lines))

\* C28 (WAL sequence numbers are dense): at every moment the sequence numbers
\* of the entries of a session's WAL file, in file order, are 0, 1, 2, ...
\* without gap or repeat -- after a truncation, and for entries appended after
\* recover_session has re-opened a WAL that is not empty.
WalSequenceDense ==
    \A sid \in AllSessionIds :
        LET seqs == EntrySequences(wal_files[sid].lines)
        IN  \A i \in 1 .. Len(seqs) : seqs[i] = i - 1

\* The ids of the actions of a session, in list order.
SessionActionIds(session) ==
    [i \in 1 .. Len(session.actions) |-> session.actions[i].action_id]

\* One list continues the other: nothing removed, reordered or replaced.
IsPrefix(old, new) == Len(old) <= Len(new) /\ SubSeq(new, 1, Len(old)) = old

\* C29 (action lists are append-only): in every step of the manager that
\* leaves a session stored under an id, the session's id is unchanged and the
\* actions it held before are still there, in the same order, at the front of
\* its list.
ActionsAppendOnly ==
    [][\A sid \in DOMAIN sessions \cap DOMAIN sessions' :
         /\ sessions'[sid].session_id = sessions[sid].session_id
         /\ IsPrefix(SessionActionIds(sessions[sid]), SessionActionIds(sessions'[sid]))]_vars

\* C30 (closed is terminal): in every step of the manager that leaves a
\* session stored under an id, a session that close_session has made inactive
\* stays inactive.
ClosedIsTerminal ==
    [][\A sid \in DOMAIN sessions \cap DOMAIN sessions' :
         ~sessions[sid].is_active => ~sessions'[sid].is_active]_vars

\* The last anchor attempt for the session failed in the callback while the
\* session was open: the attempt was the anchor loop's.
FailedInLoop(sid) ==
    /\ sid \in failed_anchor
    /\ sid \in DOMAIN sessions
    /\ sessions[sid].is_active

\* C31 (the anchor loop survives callback failures): a callback failure for a
\* session leaves the loop task running with the ids it had still to visit;
\* the iteration then comes to its end, and a later iteration attempts the
\* failed session again.
LoopSurvivesCallbackFailure ==
    /\ [][\A c \in calls :
            (c.caller = "loop" /\ c \notin calls' /\ c.session_id \in failed_anchor')
            => ~loop'.awaiting /\ loop'.todo = loop.todo]_vars
    /\ \A sid \in AllSessionIds :
         /\ FailedInLoop(sid) ~> (~loop.awaiting /\ loop.todo = <<>>)
         /\ FailedInLoop(sid) ~> (sid \notin failed_anchor)

\* The callback has failed for the first session of an iteration and the
\* second, open too, is still to be visited.
LoopSurvivesCallbackFailure_Witness ==
    /\ Len(session_keys) = 2
    /\ FailedInLoop(session_keys[1])
    /\ sessions[session_keys[2]].is_active
    /\ ~loop.awaiting
    /\ loop.todo = <<session_keys[2]>>
    /\ calls = {}

\* The signature is the Supervisor's over the manifest as it is.
GenuineSignature(mf) == mf.signature = "valid"

\* The classification at hand is the manifest's: the command is in one of its
\* lists and the classifier answered from there.
ManifestConsulted ==
    /\ Classified
    /\ ManifestLayer(manifest, Result.command, Result.args) # <<>>
    /\ classification = ManifestLayer(manifest, Result.command, Result.args)

\* C32 (manifest trust at startup): after startup a manifest is consulted
\* only if its signature is good; with a manifest whose signature is not, the
\* classifier is in paranoid mode; with no manifest configured paranoid mode
\* is off and no manifest is used.
ManifestTrust ==
    startup.done =>
      /\ ManifestConsulted => GenuineSignature(manifest[1])
      /\ (/\ Getenv(host_env, "TALOS_POLICY_MANIFEST", "") # ""
          /\ startup.file.kind = "manifest"
          /\ ~GenuineSignature(startup.file.manifest[1])) => paranoid_mode
      /\ Getenv(host_env, "TALOS_POLICY_MANIFEST", "") = ""
           => ~paranoid_mode /\ manifest = <<>>

\* The ids of the actions whose entries a WAL file holds.
WalActionIds(file) ==
    {file.lines[i].entry.action_id : i \in {j \in 1 .. Len(file.lines) : file.lines[j].kind = "entry"}}

\* C33 (no action is lost to a concurrent anchor): with an anchor callback
\* configured, in every state every action in a session's list is still in
\* the session's WAL or was covered by a root for which the callback returned.
NoActionLostToAnchor ==
    anchor_callback =>
      \A sid \in DOMAIN sessions :
        \A i \in 1 .. Len(sessions[sid].actions) :
          sessions[sid].actions[i].action_id \in WalActionIds(wal_files[sid]) \cup anchored

\* C34 (recovery preserves audit hashes): when recover_session installs the
\* session it rebuilt from the WAL, every action in it for which record_action
\* had returned has the audit hash that record_action returned.
RecoveryPreservesHashes ==
    [][\A sid \in AllSessionIds :
         (RecoverSession(sid) /\ ret'.outcome = "value")
         => \A i \in 1 .. Len(sessions'[sid].actions) :
              \A r \in returned :
                r.action_id = sessions'[sid].actions[i].action_id
                => compute_hash(sessions'[sid].actions[i]) = r.audit_hash]_vars

\* close_session has completed for the session: it is inactive and no
\* close_session call for it is suspended in the anchor callback.
CloseCompleted(sid) ==
    /\ sid \in DOMAIN sessions
    /\ ~sessions[sid].is_active
    /\ ~\E c \in calls : c.session_id = sid /\ c.caller = "close"

\* C35 (no action after close): once close_session has completed for a
\* session, no step adds an entry to its WAL or an action to its list.
NoActionAfterClose ==
    [][\A sid \in AllSessionIds :
         (CloseCompleted(sid) /\ sid \in DOMAIN sessions')
         => /\ Len(sessions'[sid].actions) <= Len(sessions[sid].actions)
            /\ Len(wal_files'[sid].lines) <= Len(wal_files[sid].lines)]_vars

\* C36 (a failure reported by value counts as failure): when the anchor
\* callback returns a failure result without raising, and when anchor_session
\* runs with no callback configured, no WAL file is truncated and no
\* last-anchor time is changed.
FailureByValueRetainsWal ==
    [][/\ \A c \in calls :
            AnchorCallbackReturns(c, "failure")
            => wal_files' = wal_files /\ last_anchor' = last_anchor
       /\ \A sid \in AllSessionIds, immediate \in BOOLEAN :
            (~anchor_callback /\ AnchorSessionCall(sid, immediate))
            => wal_files' = wal_files /\ last_anchor' = last_anchor]_vars

\* The final anchor of close_session failed in the callback: the session is
\* closed, its WAL is retained and no anchor has been attempted since.
FailedFinalAnchor(sid) ==
    /\ CloseCompleted(sid)
    /\ sid \in failed_anchor
    /\ Len(wal_files[sid].lines) > 0

\* C40 (a failed final anchor is retried): after the final anchor of
\* close_session has failed in the callback, anchor_session is attempted for
\* the session again.
FailedFinalAnchorRetried ==
    \A sid \in AllSessionIds : FailedFinalAnchor(sid) ~> (sid \notin failed_anchor)

(***************************************************************************)
(* Properties of terminal_execute and of the executors.                    *)
(***************************************************************************)

\* The canonical form of path is root or a directory below it: the
\* components of root are the leading components of path.
Descends(path, root) ==
    LET p == AbsParts(path)
        r == AbsParts(root)
    IN  Len(p) >= Len(r) /\ SubSeq(p, 1, Len(r)) = r

\* The working directory a request runs in.
RequestCwd(request) == IF request.cwd # "" THEN request.cwd ELSE project_root

\* C18 (P8, path confinement): an execute request whose canonicalised cwd is
\* neither the project root nor a descendant of it -- a sibling such as
\* /proj-evil included -- is answered 403, and the handler spawns no child,
\* creates no session and records no action.
PathConfinement ==
    [][\A request \in ExecRequests, spawns \in BOOLEAN :
          (ExecuteRequest(request, spawns)
             /\ ~Descends(RequestCwd(request), project_root))
          => /\ response'.status = 403
             /\ children' = children
             /\ exec' = exec
             /\ sessions' = sessions
             /\ wal_files' = wal_files
             /\ rec' = rec]_vars

\* C19 (P9, env scrubbing): a child spawned by either executor with an env
\* overlay that contains LD_PRELOAD, LD_LIBRARY_PATH or DYLD_INSERT_LIBRARIES
\* has none of the three in its environment.
EnvScrubbing ==
    \A i \in 1 .. Len(children) :
        DOMAIN children[i].overlay \cap dangerous # {}
        => DOMAIN children[i].env \cap dangerous = {}

\* C20 (environment whitelist): every variable of a child of either executor
\* is a non-denylisted variable of the caller's overlay, PATH or HOME of the
\* host (or their defaults), the fixed locale or the fixed terminal type --
\* for a PTY child also its session id; no other host variable reaches it.
EnvWhitelist ==
    \A i \in 1 .. Len(children) :
        LET c == children[i] IN
        \A k \in DOMAIN c.env :
            \/ k \in DOMAIN c.overlay \ dangerous /\ c.env[k] = c.overlay[k]
            \/ k = "PATH" /\ c.env[k] = Getenv(host_env, "PATH", "/usr/bin:/bin")
            \/ k = "HOME" /\ c.env[k] = Getenv(host_env, "HOME", "/tmp")
            \/ k = "LANG" /\ c.env[k] = "en_US.UTF-8"
            \/ k = "TERM" /\ c.env[k] = "xterm-256color"
            \/ k = "TALOS_SESSION_ID" /\ c.kind = "pty"

\* C21 (every execution is audited): when the child of an execute request
\* ends -- with exit code zero, with another exit code, or killed on the
\* timeout -- the handler calls record_action for it, which writes the WAL
\* entry and the session action whose hash the response carries.
EveryExecutionAudited ==
    [][\A outcome \in ChildOutcomes :
          ExecuteChildDone(outcome)
          => /\ rec' # <<>>
             /\ rec'[1].session_id = exec[1].session_id
             /\ rec'[1].action.command = exec[1].request.command]_vars

\* The classifier refuses the request's command or asks for an approval: it
\* is blocked, HIGH_RISK, or WRITE while TALOS_ENV is not dev.
Gated(request) ==
    LET cl == ClassifyRequest[manifest, paranoid_mode,
                              [command |-> request.command, args |-> request.args]]
    IN  \/ cl.is_blocked
        \/ cl.risk_level = HIGH_RISK
        \/ cl.risk_level = WRITE /\ Getenv(host_env, "TALOS_ENV", "") # "dev"

\* C22 (policy gate before execution): an execute request whose command is
\* classified blocked, HIGH_RISK, or WRITE outside dev is answered 403, and
\* handling it spawns no child, creates no session and records no action.
PolicyGate ==
    [][\A request \in ExecRequests, spawns \in BOOLEAN :
          (Gated(request) /\ ExecuteRequest(request, spawns))
          => /\ response'.status = 403
             /\ children' = children
             /\ exec' = exec
             /\ sessions' = sessions
             /\ session_keys' = session_keys
             /\ wal_files' = wal_files
             /\ rec' = rec]_vars

\* C22: a WRITE command has been refused outside dev, a HIGH_RISK one or a
\* blocked one has been refused, and nothing was spawned or created.
PolicyGate_Witness ==
    /\ response.status = 403
    /\ response.detail \in {"Command blocked",
                            "HIGH_RISK command requires Supervisor approval",
                            "WRITE command requires Supervisor approval"}
    /\ children = <<>>
    /\ sessions = <<>>

(***************************************************************************)
(* Properties of the PTY executor.                                         *)
(***************************************************************************)

\* SessionState: the states a session ends in.
TerminalStates == {"completed", "aborted", "failed"}

\* C23 (interactive-session resource invariant): for every interactive
\* session, in every reachable state, the master fd is open exactly when the
\* state is RUNNING or WAITING_INPUT, and the child's pid is alive (it still
\* exists, as is_alive tests it) exactly when the state is not COMPLETED,
\* ABORTED or FAILED.
SessionResources ==
    \A sid \in DOMAIN pty_sessions :
        LET session == pty_sessions[sid] IN
        /\ session.master_fd \in fds <=> session.state \in {"running", "waiting_input"}
        /\ is_alive(session) <=> session.state \notin TerminalStates

\* The child of the session has exited and has not been waited for.
ChildHasExited(sid) ==
    /\ sid \in DOMAIN pty_sessions
    /\ procs[pty_sessions[sid].pid].st = "zombie"

\* The session is in a terminal state, its master fd is closed and its child
\* has been reaped.
Finalised(sid) ==
    /\ sid \in DOMAIN pty_sessions
    /\ pty_sessions[sid].state \in TerminalStates
    /\ pty_sessions[sid].master_fd \notin fds
    /\ procs[pty_sessions[sid].pid].st = "reaped"

\* C24 (every interactive session is finalised): for every session, started
\* with an output callback or without one, once its child has exited -- by
\* itself or killed by the signal of an abort -- the session eventually is in
\* a terminal state with the master fd closed and the child reaped.
EverySessionFinalised ==
    \A sid \in AllPtyIds : ChildHasExited(sid) ~> Finalised(sid)

\* The child of the session is running: it has not exited.
ChildRuns(sid) ==
    /\ sid \in DOMAIN pty_sessions
    /\ procs[pty_sessions[sid].pid].st = "running"

\* C25: abort_session on a known session whose child is alive sends SIGTERM
\* (SIGKILL with force) to that child's pid, sets the state to ABORTED and
\* returns true; on an unknown session or a child that is already dead it
\* returns false, sends no signal and leaves the state unchanged. A session
\* that is ABORTED stays ABORTED, through the reader's cleanup as well.
AbortContract ==
    [][/\ \A sid \in AllPtyIds, force \in BOOLEAN :
             AbortSession(sid, force) =>
               IF ChildRuns(sid)
                 THEN /\ pty_hist'.signals =
                           Append(pty_hist.signals,
                                  [pid |-> pty_sessions[sid].pid,
                                   sig |-> IF force THEN SIGKILL ELSE SIGTERM])
                      /\ pty_sessions'[sid].state = "aborted"
                      /\ pty_ret'.value = [bool |-> TRUE]
                 ELSE /\ pty_ret'.value = [bool |-> FALSE]
                      /\ pty_hist'.signals = pty_hist.signals
                      /\ pty_sessions' = pty_sessions
       /\ \A sid \in DOMAIN pty_sessions :
             pty_sessions[sid].state = "aborted" => pty_sessions'[sid].state = "aborted"
      ]_vars

\* C26: write_input never raises. On a known session whose child is alive
\* it writes exactly the UTF-8 encoding of the data to that session's own
\* master fd and returns true; on an unknown session, a session whose child is
\* not alive, or a write error on the fd, it returns false, writes to no fd
\* and leaves the sessions as they are.
WriteContract ==
    [][\A sid \in AllPtyIds, data \in WriteData, oserror \in BOOLEAN :
          WriteInput(sid, data, oserror) =>
            /\ pty_ret'.outcome # "raised"
            /\ pty_sessions' = pty_sessions
            /\ IF ChildRuns(sid) /\ ~oserror /\ pty_sessions[sid].master_fd \in fds
                 THEN /\ pty_hist'.writes =
                           Append(pty_hist.writes,
                                  [fd |-> pty_sessions[sid].master_fd,
                                   bytes |-> Utf8Bytes(data)])
                      /\ pty_ret'.value = [bool |-> TRUE]
                 ELSE /\ pty_hist'.writes = pty_hist.writes
                      /\ pty_ret'.value = [bool |-> FALSE]]_vars

\* C27 (read_output is atomic with respect to the reader): under every
\* interleaving of the reader's appends with read_output calls, the text the
\* read_output calls of a session have returned, followed by what is in its
\* buffer, is the text the reader has read from the PTY: every chunk is
\* returned by one call, in order, none lost and none twice.
ReadOutputAtomic ==
    \A sid \in DOMAIN pty_sessions :
        pty_hist.produced[sid] =
            pty_hist.consumed[sid] \o pty_sessions[sid].stdout_buffer

\* C27: a read_output call has returned the first chunk, and the reader has
\* appended the second one since.
ReadOutputAtomic_Witness ==
    \E sid \in DOMAIN pty_sessions :
        /\ pty_hist.consumed[sid] = "1"
        /\ pty_sessions[sid].stdout_buffer = "2"
        /\ pty_ret.op = "read_output"

\* C37 (exit codes reflect a real exit): a session has an exit code, or is
\* COMPLETED, only when its child has exited and been reaped, and the code is
\* the child's: its exit status, or the negated number of the signal that
\* killed it.
ExitCodeReal ==
    \A sid \in DOMAIN pty_sessions :
        LET session == pty_sessions[sid]
            proc == procs[session.pid]
        IN  /\ session.exit_code # <<>>
                 => proc.st = "reaped" /\ session.exit_code = <<proc.status>>
            /\ session.state = "completed" => proc.st = "reaped"

\* C38 (terminal states are absorbing): a step changes the state of a
\* session only from STARTING to RUNNING, between RUNNING and WAITING_INPUT,
\* or from RUNNING or WAITING_INPUT to COMPLETED, ABORTED or FAILED.
TerminalStatesAbsorbing ==
    [][\A sid \in DOMAIN pty_sessions \cap DOMAIN pty_sessions' :
         LET old == pty_sessions[sid].state
             new == pty_sessions'[sid].state
         IN  old # new =>
               \/ old = "starting" /\ new = "running"
               \/ /\ old \in {"running", "waiting_input"}
                  /\ new \in {"running", "waiting_input"} \cup TerminalStates]_vars

\* The session was started without an output callback: it has no reader task.
Polled(sid) == sid \in DOMAIN pty_sessions /\ sid \notin DOMAIN read_tasks

\* C39 (the polled API works without a callback): for a session started
\* without an output callback, output the child has written to the PTY comes
\* to be in the buffer read_output returns from (or has been returned by it),
\* and after the child has exited the session comes to be not alive, which is
\* when read_output reports complete.
PolledApiWorks ==
    \A sid \in AllPtyIds :
        /\ (Polled(sid) /\ tty[pty_sessions[sid].pid] # <<>>)
             ~> (/\ sid \in DOMAIN pty_sessions
                 /\ \/ pty_sessions[sid].stdout_buffer # ""
                    \/ pty_hist.consumed[sid] # "")
        /\ (Polled(sid) /\ ChildHasExited(sid))
             ~> (sid \in DOMAIN pty_sessions /\ ~is_alive(pty_sessions[sid]))

====
